---- MODULE Spec2Model ----
(***************************************************************************)
(* Exchange-rate ingestion: the data collector (fan-out over the provider  *)
(* adapters) and the data processor (clean, dedup, persist, cache,         *)
(* notify) of services/data-ingestor, with the batch driver of its         *)
(* main.py; and the rate reader (CurrencyProvider.get_latest_rates) of     *)
(* services/currency-service, alone and beside the write pipeline; the     *)
(* producer and the SQS consumer of services/shared/messaging.py; and the  *)
(* rate limiter (check_rate_limit) of services/ranking-service.            *)
(*                                                                         *)
(* Numbers.  A raw rate is a real number; the model carries it to five     *)
(* fractional digits as an integer count of 0.00001.  A canonical base     *)
(* rate (deal_base_rate) is a decimal with four fractional digits, an      *)
(* integer count of 0.0001.  tts and ttb carry six fractional digits and   *)
(* are kept as a pair (w, f): w counts 0.0001 and f, in 0..99, counts      *)
(* 0.000001.  Time is an integer count of seconds; the rate limiter's      *)
(* wall clock counts tenths of a second, and int(time.time()) truncates.   *)
(***************************************************************************)
EXTENDS Integers, Sequences, FiniteSets, TLC

VARIABLES
    now,                 \* the wall clock (DateTimeUtils.utc_now), seconds
    bok_api_key,         \* config.external_apis.bok_api_key is set
    fault_mode,          \* which dependency of the pipeline may fail in this behaviour
    cpc,                 \* position of collect_all_data
    started_at,          \* when the gather of the current run was issued
    task,                \* per source: the _collect_from_source coroutine
    completed,           \* the sources in the order their coroutines finished
    collection_results,  \* what collect_all_data returned
    ppc,                 \* position of process_exchange_rate_data
    collection_result,   \* the CollectionResult being processed
    cleaned,             \* the list _clean_and_transform_data returned
    processed_data,      \* the ExchangeRate list carried between the stages
    lookups,             \* what the dedup queries of the current run returned
    store,               \* exchange_rate_history, in insertion order
    cache,               \* redis: currency -> hash stored under rate:<code>
    cache_writes,        \* the records whose set_hash call succeeded, in order
    events,              \* update events accepted by the messaging sink
    runs,                \* pipeline runs started so far
    failures,            \* per dependency: the calls of the current run that failed
    saved_count,         \* what _save_to_database returned in the current run
    raised,              \* process_exchange_rate_data raised in the current run
    calls,               \* get_latest_rates calls made so far
    request,             \* the arguments of the last get_latest_rates call
    reply,               \* what the last get_latest_rates call returned
    queried,             \* the currencies the last call looked up in the store
    warning_enabled,     \* the stdlib logger of currency_provider emits warnings
    structured_logger,   \* get_logger_safe of data_collector returned a StructuredLogger
    mode,                \* EXECUTION_MODE of the ingestor: single or cronjob
    dpc,                 \* position of the batch driver
    position,            \* index of the outcome the driver's loop handles next
    handled,             \* per outcome the loop reached: what the driver did with it
    rpc,                 \* position of a get_latest_rates call taken step by step
    db_row,              \* the row _get_rate_from_db returned to that call
    cleanup_call,        \* the last call of cleanup_old_data and the number of calls so far
    exit_code,           \* the exit status of the ingestor process, Running until it ends
    cleanup_ran,         \* cleanup_services has run in the current invocation
    initialized,         \* MessageProducer._initialized
    kafka_producer,      \* MessageProducer.kafka_producer is set
    sqs_client,          \* the SQS client of the producer and of the consumer is set
    sqs_queue_url,       \* config.messaging.sqs_queue_url is set
    kafka_topic,         \* the messages Kafka has accepted, in order
    sqs_queue,           \* the messages in the SQS queue: accepted and not deleted
    sends,               \* send_message calls made so far
    send_reply,          \* how the last send_message call ended and the sinks it tried
    mpc,                 \* position of MessageConsumer._consume_sqs
    consumer_running,    \* MessageConsumer._running
    messages,            \* the rest of the batch receive_message returned
    delivery,            \* the last message given to the handler and how that ended
    deleted,             \* the messages delete_message has removed from the queue
    stopped,             \* MessageConsumer.stop has been called
    wall_clock,          \* time.time() of ranking-service, in tenths of a second
    rate_limit_store,    \* ranking-service: client IP -> timestamps of its requests in the window
    requests,            \* per client IP, the wall-clock time and the result of each of its requests
    checked              \* the last call of check_rate_limit: its client, its result, calls so far

vars == <<now, bok_api_key, fault_mode, structured_logger, mode, dpc, position, handled,
          rpc, db_row, cpc, started_at, task, completed, collection_results,
          ppc, collection_result, cleaned, processed_data, lookups, store, cache,
          cache_writes, events, runs, failures, saved_count, raised,
          calls, request, reply, queried, warning_enabled,
          cleanup_call,
          exit_code, cleanup_ran,
          initialized, kafka_producer, sqs_client, sqs_queue_url, kafka_topic,
          sqs_queue, sends, send_reply, mpc, consumer_running, messages,
          delivery, deleted, stopped,
          wall_clock, rate_limit_store, requests, checked>>

collector_vars == <<cpc, started_at, task, completed, collection_results>>
pipeline_vars == <<ppc, collection_result, cleaned, processed_data, lookups, store,
                   cache, cache_writes, events, runs, failures, saved_count, raised>>
reader_vars == <<calls, request, reply, queried, warning_enabled>>
setup_vars == <<structured_logger, mode>>
driver_vars == <<dpc, position, handled>>
step_vars == <<rpc, db_row>>
retention_vars == <<cleanup_call>>
exit_vars == <<exit_code, cleanup_ran>>
messaging_vars == <<initialized, kafka_producer, sqs_client, sqs_queue_url, kafka_topic,
                    sqs_queue, sends, send_reply, mpc, consumer_running, messages,
                    delivery, deleted, stopped>>
ranking_vars == <<wall_clock, rate_limit_store, requests, checked>>

----------------------------------------------------------------------------
(* Bounds of the model *)

TickSeconds == 10        \* granularity of the clock while a gather is running
MaxRuns == 2             \* pipeline runs explored
MaxWindowTicks == 2      \* half-hour ticks explored between pipeline runs
MaxCalls == 2            \* get_latest_rates calls explored
MaxRows == 2             \* rows the ingestor writes while the reader is observed
MaxReaderTicks == 1      \* ten-minute ticks explored while the reader is observed
MaxDays == 2             \* days explored between pipeline runs
MaxCleanups == 1         \* calls of cleanup_old_data explored
MaxSends == 3            \* send_message calls explored
MaxRequests == 101       \* requests of the first client explored
MaxOtherRequests == 1    \* requests of every other client explored
MaxWallClock == 700      \* the wall clock explored, in tenths of a second
MaxDriverRuns == 2       \* invocations of the batch driver explored

----------------------------------------------------------------------------
(* Program constants *)

ClientTimeoutTotal == 30          \* aiohttp.ClientTimeout(total=30)
RateUpperBound == 1000000000      \* 10000, in units of 0.00001
DedupWindowSeconds == 3600        \* timedelta(hours=1)
DuplicateTolerance == 100         \* 0.01, in units of 0.0001
CacheTtlSeconds == 3600           \* set_hash(cache_key, cache_data, 3600)
cache_ttl == 600                  \* CurrencyProvider.cache_ttl
window == 60                      \* check_rate_limit: window = 60
limit == 100                      \* check_rate_limit: limit = 100

Min(a, b) == IF a < b THEN a ELSE b
Abs(a) == IF a < 0 THEN 0 - a ELSE a

\* floor(n * 10^k / d) and the remainder, by long division (d > 0, n >= 0)
RECURSIVE ScaledDiv(_, _, _)
ScaledDiv(n, d, k) ==
    IF k = 0 THEN <<n \div d, n % d>>
    ELSE LET p == ScaledDiv(n, d, k - 1)
         IN  <<10 * p[1] + (10 * p[2]) \div d, (10 * p[2]) % d>>

----------------------------------------------------------------------------
(* The source table: DataCollector._initialize_api_sources *)

SourceIds == <<"bok", "exchangerate_api", "fixer">>

SourceCurrencies(source_id) ==
    CASE source_id = "bok" -> {"USD", "JPY", "EUR", "GBP", "CNY"}
      [] source_id = "exchangerate_api" ->
            {"USD", "JPY", "EUR", "GBP", "CNY", "AUD", "CAD", "CHF"}
      [] source_id = "fixer" -> {"USD", "JPY", "EUR", "GBP"}

\* a source table that ignores the missing credential
SourceActiveIgnoringKey(source_id) == TRUE

SourceActive(source_id) == IF source_id = "bok" THEN bok_api_key ELSE TRUE

\* the coroutines collect_all_data creates, in table order
ActiveSourceIds == SelectSeq(SourceIds, SourceActive)

----------------------------------------------------------------------------
(* Provider responses, the inputs of an adapter call.                      *)
(*   [kind |-> "error"]    the request fails: connection error, HTTP error *)
(*                         status (raise_for_status) or a body that is not *)
(*                         JSON                                            *)
(*   [kind |-> "timeout"]  the provider hangs until the session timeout    *)
(*   [kind |-> "json", body |-> b]   a JSON document                       *)
(* A JSON scalar is [t |-> "num", v |-> n], [t |-> "text", v |-> 0] (a     *)
(* string that is no number) or [t |-> "empty", v |-> 0] (null or "").     *)

Num(n) == [t |-> "num", v |-> n]
Text == [t |-> "text", v |-> 0]
Empty == [t |-> "empty", v |-> 0]

NoTimestamp == 0 - 1

RawExchangeRateData(currency_code, rate, source, timestamp) ==
    [currency_code |-> currency_code, rate |-> rate, source |-> source,
     timestamp |-> timestamp]

Returned(records) == [raised |-> FALSE, records |-> records]
Raised == [raised |-> TRUE, records |-> <<>>]

\* DataCollector._parse_bok_currency_code: the first country of the mapping
\* that occurs in the statistic's name.  A name is modelled by the set of
\* country words it contains (romanised).
currency_mapping ==
    << <<"miguk", "USD">>, <<"ilbon", "JPY">>, <<"yureopyeonhap", "EUR">>,
       <<"yeongguk", "GBP">>, <<"jungguk", "CNY">> >>

RECURSIVE FirstCountry(_, _)
FirstCountry(mapping, stat_name) ==
    IF mapping = <<>> THEN "None"
    ELSE IF Head(mapping)[1] \in stat_name THEN Head(mapping)[2]
    ELSE FirstCountry(Tail(mapping), stat_name)

parse_bok_currency_code(stat_name) == FirstCountry(currency_mapping, stat_name)

\* the row loop of _collect_from_bok: a row without a currency or without a
\* value is skipped, float(rate_value) raises on a value that is no number.
\* DATA_VALUE is given in units of 0.00001.
RECURSIVE BokRows(_, _)
BokRows(rows, t) ==
    IF rows = <<>> THEN Returned(<<>>)
    ELSE LET item == Head(rows)
             currency_code == parse_bok_currency_code(item.stat_name)
             rate_value == item.value
             rest == BokRows(Tail(rows), t)
         IN  IF currency_code # "None" /\ rate_value.t # "empty"
             THEN IF rate_value.t = "text" \/ rest.raised THEN Raised
                  ELSE Returned(<<RawExchangeRateData(currency_code, rate_value.v,
                                                      "bok", t)>> \o rest.records)
             ELSE rest

collect_from_bok(resp, t) ==
    IF ~bok_api_key THEN Raised
    ELSE IF resp.kind # "json" THEN Raised
    ELSE IF resp.body.has_rows THEN BokRows(resp.body.rows, t)
    ELSE Returned(<<>>)

\* the loop of _collect_from_exchangerate_api over data["rates"], a list of
\* <<code, quote>>; a quote counts 0.000001 of the currency per KRW and is
\* inverted: krw_rate = 1 / rate if rate > 0 else 0.
RECURSIVE ExchangerateRates(_, _)
ExchangerateRates(rates, t) ==
    IF rates = <<>> THEN Returned(<<>>)
    ELSE LET currency_code == Head(rates)[1]
             rate == Head(rates)[2]
             rest == ExchangerateRates(Tail(rates), t)
         IN  IF currency_code \in SourceCurrencies("exchangerate_api")
             THEN IF rate.t # "num" \/ rest.raised THEN Raised
                  ELSE LET krw_rate == IF rate.v > 0
                                       THEN ScaledDiv(1000000, rate.v, 5)[1]
                                       ELSE 0
                       IN  Returned(<<RawExchangeRateData(currency_code, krw_rate,
                                         "exchangerate_api", t)>> \o rest.records)
             ELSE rest

collect_from_exchangerate_api(resp, t) ==
    IF resp.kind # "json" THEN Raised
    ELSE IF resp.body.has_rates THEN ExchangerateRates(resp.body.rates, t)
    ELSE Returned(<<>>)

\* the loop of _collect_from_fixer; quotes count 0.0001 of the currency per
\* EUR: krw_rate = krw_to_eur / eur_rate if eur_rate > 0 else 0.
RECURSIVE FixerRates(_, _, _)
FixerRates(rates, krw_to_eur, t) ==
    IF rates = <<>> THEN Returned(<<>>)
    ELSE LET currency_code == Head(rates)[1]
             eur_rate == Head(rates)[2]
             rest == FixerRates(Tail(rates), krw_to_eur, t)
         IN  IF currency_code \in SourceCurrencies("fixer") /\ currency_code # "KRW"
             THEN IF eur_rate.t # "num" \/ krw_to_eur.t # "num" \/ rest.raised
                  THEN Raised
                  ELSE LET krw_rate == IF eur_rate.v > 0
                                       THEN ScaledDiv(krw_to_eur.v, eur_rate.v, 5)[1]
                                       ELSE 0
                       IN  Returned(<<RawExchangeRateData(currency_code, krw_rate,
                                                          "fixer", t)>> \o rest.records)
             ELSE rest

HasKey(rates, code) == \E i \in 1..Len(rates) : rates[i][1] = code
ValueOf(rates, code) == rates[CHOOSE i \in 1..Len(rates) : rates[i][1] = code][2]

collect_from_fixer(resp, t) ==
    IF resp.kind # "json" THEN Raised
    ELSE IF resp.body.has_rates /\ HasKey(resp.body.rates, "KRW")
    THEN FixerRates(resp.body.rates, ValueOf(resp.body.rates, "KRW"), t)
    ELSE Returned(<<>>)

\* the currency reference table (DataProcessor._get_currency_name)
currency_names == {"USD", "JPY", "EUR", "GBP", "CNY", "AUD", "CAD", "CHF", "HKD", "SGD"}

\* ValidationUtils.validate_currency_code
validate_currency_code(currency_code) == currency_code \in currency_names

\* DataCollector._validate_collected_data
RECURSIVE validate_collected_data(_, _)
validate_collected_data(raw_data, t) ==
    IF raw_data = <<>> THEN <<>>
    ELSE LET item == Head(raw_data)
             rest == validate_collected_data(Tail(raw_data), t)
         IN  IF ~validate_currency_code(item.currency_code) THEN rest
             ELSE IF item.rate <= 0 \/ item.rate > RateUpperBound THEN rest
             ELSE <<[item EXCEPT !.timestamp =
                        IF item.timestamp = NoTimestamp THEN t ELSE item.timestamp]>>
                  \o rest

CollectionResult(source, success, error_message, collection_time, raw_data) ==
    [source |-> source, success |-> success, error_message |-> error_message,
     currency_count |-> Len(raw_data), collection_time |-> collection_time,
     raw_data |-> raw_data]

\* the adapter _collect_from_source dispatches to
AdapterCall(source_id, resp, t) ==
    CASE source_id = "bok" -> collect_from_bok(resp, t)
      [] source_id = "exchangerate_api" -> collect_from_exchangerate_api(resp, t)
      [] source_id = "fixer" -> collect_from_fixer(resp, t)
      [] OTHER -> Raised

\* an error path that keeps the success flag of the happy path
collect_from_source_success_with_error(source_id, resp, t) ==
    LET raw_data == AdapterCall(source_id, resp, t)
    IN  IF raw_data.raised
        THEN CollectionResult(source_id, TRUE, "request failed", t, <<>>)
        ELSE CollectionResult(source_id, TRUE, "", t,
                              validate_collected_data(raw_data.records, t))

\* DataCollector._collect_from_source, finishing at time t
collect_from_source(source_id, resp, t) ==
    LET raw_data == AdapterCall(source_id, resp, t)
    IN  IF raw_data.raised
        THEN CollectionResult(source_id, FALSE, "request failed", t, <<>>)
        ELSE CollectionResult(source_id, TRUE, "", t,
                              validate_collected_data(raw_data.records, t))

----------------------------------------------------------------------------
(* Provider responses explored *)

Json(body) == [kind |-> "json", body |-> body]
RequestError == [kind |-> "error"]
RequestTimeout == [kind |-> "timeout"]
NoResponse == [kind |-> "none"]

BokRow(stat_name, value) == [stat_name |-> stat_name, value |-> value]

BokResponses ==
    { RequestError,
      Json([has_rows |-> FALSE, rows |-> <<>>]),
      Json([has_rows |-> TRUE,
            rows |-> <<BokRow({"miguk"}, Num(135025000)), BokRow({"ilbon"}, Num(920000))>>]),
      Json([has_rows |-> TRUE,
            rows |-> <<BokRow({"miguk"}, Num(135025000)), BokRow({"ilbon"}, Text)>>]),
      Json([has_rows |-> TRUE,
            rows |-> <<BokRow({"miguk"}, Num(135025000)), BokRow({"ilbon"}, Empty)>>]),
      Json([has_rows |-> TRUE,
            rows |-> <<BokRow({"miguk", "ilbon"}, Num(2000000000)), BokRow({}, Num(5))>>]) }

ExchangerateResponses ==
    { RequestError,
      Json([has_rates |-> FALSE, rates |-> <<>>]),
      Json([has_rates |-> TRUE, rates |-> << <<"USD", Num(740)>>, <<"XXX", Num(5)>> >>]),
      Json([has_rates |-> TRUE, rates |-> << <<"USD", Num(740)>>, <<"JPY", Text>> >>]),
      Json([has_rates |-> TRUE, rates |-> << <<"USD", Num(0)>>, <<"JPY", Num(108000)>> >>]) }

FixerResponses ==
    { RequestError,
      Json([has_rates |-> FALSE, rates |-> <<>>]),
      Json([has_rates |-> TRUE, rates |-> << <<"USD", Num(10800)>> >>]),
      Json([has_rates |-> TRUE,
            rates |-> << <<"KRW", Num(15000000)>>, <<"USD", Num(10800)>>,
                         <<"EUR", Num(10000)>> >>]),
      Json([has_rates |-> TRUE, rates |-> << <<"KRW", Text>>, <<"USD", Num(10800)>> >>]) }

Responses(source_id) ==
    CASE source_id = "bok" -> BokResponses
      [] source_id = "exchangerate_api" -> ExchangerateResponses
      [] source_id = "fixer" -> FixerResponses

----------------------------------------------------------------------------
(* The collector: DataCollector.collect_all_data *)

Sources == {SourceIds[i] : i \in 1..Len(SourceIds)}

NoResult == CollectionResult("", FALSE, "", 0, <<>>)
NoTask == [st |-> "none", resp |-> NoResponse, escaped |-> FALSE, result |-> NoResult]
PendingTask == [NoTask EXCEPT !.st = "pending"]

\* aiohttp.ClientTimeout(total=30) on the session: the latest time a request
\* issued by the current gather can still be running
RequestDeadlinePerRun == started_at + 3 * ClientTimeoutTotal

RequestDeadline == started_at + ClientTimeoutTotal

\* collect_all_data up to the gather: one coroutine per active source
StartCollect ==
    /\ cpc = "idle"
    /\ cpc' = "gathering"
    /\ started_at' = now
    /\ task' = [s \in Sources |-> IF SourceActive(s) THEN PendingTask ELSE NoTask]
    /\ completed' = <<>>
    /\ UNCHANGED <<now, bok_api_key, fault_mode, setup_vars, ranking_vars, messaging_vars, exit_vars, retention_vars, driver_vars, step_vars, collection_results, pipeline_vars, reader_vars>>

\* Whether the coroutine of source s raises instead of returning.  With the
\* StructuredLogger the except clause of _collect_from_source turns every
\* exception of the adapter into a failed CollectionResult and nothing
\* escapes to the gather.  With the logging.Logger that get_logger_safe
\* falls back to, a call with keyword arguments raises TypeError when its
\* level is enabled (warning and error are, info and debug are not): the
\* warning for a rejected record raises inside _validate_collected_data, and
\* logger.error in the except clause raises out of the coroutine.
Escapes(s, resp, t) ==
    /\ ~structured_logger
    /\ LET raw_data == AdapterCall(s, resp, t)
       IN  \/ raw_data.raised
           \/ Len(validate_collected_data(raw_data.records, t)) < Len(raw_data.records)

\* _collect_from_source finishes: it returns its CollectionResult, or raises
FinishTask(s, resp) ==
    /\ task' = [task EXCEPT ![s] =
                    [st |-> "done", resp |-> resp, escaped |-> Escapes(s, resp, now),
                     result |-> IF Escapes(s, resp, now) THEN NoResult
                                ELSE collect_from_source(s, resp, now)]]
    /\ completed' = Append(completed, s)
    /\ UNCHANGED <<now, bok_api_key, fault_mode, setup_vars, ranking_vars, messaging_vars, exit_vars, retention_vars, driver_vars, step_vars, cpc, started_at, collection_results, pipeline_vars, reader_vars>>

\* the provider of source s answers
Respond(s) ==
    /\ cpc = "gathering"
    /\ task[s].st = "pending"
    /\ now < RequestDeadline
    /\ \E resp \in Responses(s) : FinishTask(s, resp)

\* a session without a timeout: the request of a provider that hangs stays
\* pending
NoSessionTimeout(s) ==
    /\ cpc = "gathering"
    /\ task[s].st = "pending"
    /\ now >= RequestDeadline
    /\ UNCHANGED vars

\* the provider of source s hangs and the session timeout ends the request
Timeout(s) ==
    /\ cpc = "gathering"
    /\ task[s].st = "pending"
    /\ now >= RequestDeadline
    /\ FinishTask(s, RequestTimeout)

\* time passes while requests are running, up to the session timeout
TickCollect ==
    /\ cpc = "gathering"
    /\ \E s \in Sources : task[s].st = "pending"
    /\ now < RequestDeadline
    /\ now' = Min(now + TickSeconds, RequestDeadline)
    /\ UNCHANGED <<bok_api_key, fault_mode, setup_vars, ranking_vars, messaging_vars, exit_vars, retention_vars, driver_vars, step_vars, collector_vars, pipeline_vars, reader_vars>>

\* the result loop of collect_all_data: entry i of the gather is labelled
\* with the i-th key of the whole source table when it is an exception
GatherResults == [i \in 1..Len(ActiveSourceIds) |-> task[ActiveSourceIds[i]]]

ResultLoop(results, t) ==
    [i \in 1..Len(results) |->
        IF results[i].escaped
        THEN CollectionResult(SourceIds[i], FALSE, "exception", t, <<>>)
        ELSE results[i].result]

GatherReturn ==
    /\ cpc = "gathering"
    /\ \A s \in Sources : task[s].st # "pending"
    /\ cpc' = "returned"
    /\ collection_results' = ResultLoop(GatherResults, now)
    /\ UNCHANGED <<now, bok_api_key, fault_mode, setup_vars, ranking_vars, messaging_vars, exit_vars, retention_vars, driver_vars, step_vars, started_at, task, completed, pipeline_vars, reader_vars>>

\* no call of the run has failed
NoFailures == [store |-> {}, cache |-> {}, sink |-> {}]

\* _get_rate_from_db has returned no row
NoRow == [currency_code |-> "", deal_base_rate |-> 0]

\* the ingestor process has not ended
Running == 0 - 1

\* send_message has not been called
NoSend == [outcome |-> "none", tried |-> {}]

\* no message has been given to the handler
NoDelivery == [message |-> 0, handler |-> "none", deleted |-> FALSE]

\* the clients of ranking-service explored: request.client.host
ClientIps == {"10.0.0.1", "10.0.0.2"}

\* check_rate_limit has not been called
NoCheck == [client_ip |-> "", raised |-> FALSE, n |-> [ip \in ClientIps |-> 0]]

\* cleanup_old_data has not been called
NoCleanup == [n |-> 0, retention_days |-> 0, cutoff_date |-> 0, raised |-> FALSE]

\* get_latest_rates has not been called
NoRequest == [currency_codes |-> <<>>, cache_read |-> {}, db |-> {}, cache_write |-> {}]
NoReply == [raised |-> FALSE, keys |-> {}, rates |-> <<>>, source |-> "none",
            cache_hit |-> FALSE, cache_hits |-> 0, requested |-> 0, timestamp |-> 0]

\* every variable but the rate limiter's wall clock, before anything has run
IdleBesideWallClock ==
    /\ now = 0
    /\ bok_api_key \in BOOLEAN
    /\ cpc = "idle"
    /\ started_at = 0
    /\ task = [s \in Sources |-> NoTask]
    /\ completed = <<>>
    /\ collection_results = <<>>
    /\ ppc = "idle"
    /\ collection_result = NoResult
    /\ cleaned = <<>>
    /\ processed_data = <<>>
    /\ lookups = <<>>
    /\ store = <<>>
    /\ cache = <<>>
    /\ cache_writes = <<>>
    /\ events = <<>>
    /\ runs = 0
    /\ failures = NoFailures
    /\ saved_count = 0
    /\ raised = FALSE
    /\ calls = 0
    /\ request = NoRequest
    /\ reply = NoReply
    /\ queried = {}
    /\ dpc = "idle"
    /\ position = 0
    /\ handled = <<>>
    /\ rpc = "idle"
    /\ db_row = NoRow
    /\ cleanup_call = NoCleanup
    /\ exit_code = Running
    /\ cleanup_ran = FALSE
    /\ initialized = FALSE
    /\ kafka_producer = FALSE
    /\ sqs_client = FALSE
    /\ sqs_queue_url = FALSE
    /\ kafka_topic = <<>>
    /\ sqs_queue = {}
    /\ sends = 0
    /\ send_reply = NoSend
    /\ mpc = "idle"
    /\ consumer_running = FALSE
    /\ messages = <<>>
    /\ delivery = NoDelivery
    /\ deleted = {}
    /\ stopped = FALSE
    /\ rate_limit_store = <<>>
    /\ requests = [ip \in ClientIps |-> <<>>]
    /\ checked = NoCheck

IdleState ==
    /\ IdleBesideWallClock
    /\ wall_clock = 0

\* main.py initialises the configuration before it imports the collector, so
\* get_logger_safe returns the StructuredLogger
CollectorInit ==
    /\ IdleState
    /\ fault_mode = "store"
    /\ warning_enabled = TRUE
    /\ structured_logger = TRUE
    /\ mode = "single"

CollectorNext ==
    \/ StartCollect
    \/ \E s \in Sources : Respond(s)
    \/ \E s \in Sources : Timeout(s)
    \/ TickCollect
    \/ GatherReturn

SpecCollector == CollectorInit /\ [][CollectorNext]_vars

\* the collector imported before the configuration is initialised: get_logger
\* raises and get_logger_safe returns logging.getLogger(__name__)
CollectorFallbackInit ==
    /\ IdleState
    /\ fault_mode = "store"
    /\ warning_enabled = TRUE
    /\ structured_logger = FALSE
    /\ mode = "single"

SpecCollectorFallback == CollectorFallbackInit /\ [][CollectorNext]_vars

----------------------------------------------------------------------------
(* The processor: DataProcessor *)

\* DataUtils.safe_decimal(value, 4): the rate as a decimal with four
\* fractional digits, rounded half to even (the decimal module's default).
\* From units of 0.00001 to units of 0.0001.
safe_decimal(rate) ==
    LET q == rate \div 10
        r == rate % 10
    IN  IF r < 5 THEN q
        ELSE IF r > 5 THEN q + 1
        ELSE IF q % 2 = 0 THEN q ELSE q + 1

\* a decimal with six fractional digits: base + hundredths / 100, where
\* base counts 0.0001 and hundredths counts 0.000001
Decimal6(base, hundredths) == [w |-> base + (hundredths \div 100), f |-> hundredths % 100]

Less(x, y) == x.w < y.w \/ (x.w = y.w /\ x.f < y.f)

\* tts = base_rate * Decimal('1.02')
TtsSwapped(base_rate) == Decimal6(base_rate, 0 - 2 * base_rate)

Tts(base_rate) == Decimal6(base_rate, 2 * base_rate)

\* ttb = base_rate * Decimal('0.98')
Ttb(base_rate) == Decimal6(base_rate, 0 - 2 * base_rate)

\* DataProcessor._get_currency_name: the display name of a known code, the
\* code itself otherwise
get_currency_name(currency_code) ==
    IF currency_code \in currency_names THEN <<"name", currency_code>>
    ELSE <<currency_code>>

ExchangeRate(currency_code, currency_name, deal_base_rate, tts, ttb, source, recorded_at) ==
    [currency_code |-> currency_code, currency_name |-> currency_name,
     deal_base_rate |-> deal_base_rate, tts |-> tts, ttb |-> ttb,
     source |-> source, recorded_at |-> recorded_at]

\* a cleaning that stores the selling rate as the base rate
clean_and_transform_data_spread_as_base(raw_data, source) ==
    [i \in 1..Len(raw_data) |->
        LET base_rate == Tts(safe_decimal(raw_data[i].rate)).w
        IN  ExchangeRate(raw_data[i].currency_code,
                         get_currency_name(raw_data[i].currency_code),
                         base_rate, Tts(base_rate), Ttb(base_rate),
                         source, raw_data[i].timestamp)]

\* DataProcessor._clean_and_transform_data
RECURSIVE clean_and_transform_data(_, _)
clean_and_transform_data(raw_data, source) ==
    IF raw_data = <<>> THEN <<>>
    ELSE LET raw_item == Head(raw_data)
             base_rate == safe_decimal(raw_item.rate)
         IN  <<ExchangeRate(raw_item.currency_code,
                            get_currency_name(raw_item.currency_code),
                            base_rate, Tts(base_rate), Ttb(base_rate),
                            source, raw_item.timestamp)>>
             \o clean_and_transform_data(Tail(raw_data), source)

\* a duplicate check that matches equal rates only
DuplicateCountEqualRate(item, one_hour_ago) ==
    Cardinality({i \in 1..Len(store) :
        /\ store[i].currency_code = item.currency_code
        /\ store[i].source = item.source
        /\ store[i].recorded_at > one_hour_ago
        /\ store[i].deal_base_rate = item.deal_base_rate})

\* a duplicate check that forgets the source
DuplicateCountAnySource(item, one_hour_ago) ==
    Cardinality({i \in 1..Len(store) :
        /\ store[i].currency_code = item.currency_code
        /\ store[i].recorded_at > one_hour_ago
        /\ Abs(store[i].deal_base_rate - item.deal_base_rate) < DuplicateTolerance})

\* the duplicate check query of _filter_duplicates: COUNT(*) of the rows of
\* the same currency and source recorded after one_hour_ago whose rate
\* differs from the candidate's by less than 0.01
DuplicateCount(item, one_hour_ago) ==
    Cardinality({i \in 1..Len(store) :
        /\ store[i].currency_code = item.currency_code
        /\ store[i].source = item.source
        /\ store[i].recorded_at > one_hour_ago
        /\ Abs(store[i].deal_base_rate - item.deal_base_rate) < DuplicateTolerance})

\* what execute_query does for one candidate: "count" answers with the COUNT
\* row, "empty" answers without a row, "raise" raises
LookupOutcomes == {"count", "empty", "raise"}

\* the loop of _filter_duplicates: keep an item if result and
\* result[0]['count'] == 0
RECURSIVE FilterLoop(_, _, _)
FilterLoop(items, outcomes, one_hour_ago) ==
    IF items = <<>> THEN [raised |-> FALSE, filtered_data |-> <<>>]
    ELSE IF Head(outcomes) = "raise" THEN [raised |-> TRUE, filtered_data |-> <<>>]
    ELSE LET rest == FilterLoop(Tail(items), Tail(outcomes), one_hour_ago)
             keep == Head(outcomes) = "count"
                        /\ DuplicateCount(Head(items), one_hour_ago) = 0
         IN  IF rest.raised THEN rest
             ELSE [raised |-> FALSE,
                   filtered_data |-> (IF keep THEN <<Head(items)>> ELSE <<>>)
                                        \o rest.filtered_data]

\* DataProcessor._filter_duplicates, called at time t
filter_duplicates(items, outcomes, t) ==
    IF items = <<>> THEN <<>>
    ELSE LET r == FilterLoop(items, outcomes, t - DedupWindowSeconds)
         IN  IF r.raised THEN items ELSE r.filtered_data

\* the queries that were issued: up to and including the first that raised
RECURSIVE Issued(_)
Issued(outcomes) ==
    IF outcomes = <<>> THEN <<>>
    ELSE IF Head(outcomes) = "raise" THEN <<"raise">>
    ELSE <<Head(outcomes)>> \o Issued(Tail(outcomes))

\* float(x) if x else None, and str(x) if x else ''
Nullable(x) == [null |-> (x.w = 0 /\ x.f = 0), w |-> x.w, f |-> x.f]

\* the row one INSERT of _save_to_database writes at time t
HistoryRow(item, t) ==
    [currency_code |-> item.currency_code, currency_name |-> item.currency_name,
     deal_base_rate |-> item.deal_base_rate, tts |-> Nullable(item.tts),
     ttb |-> Nullable(item.ttb), source |-> item.source,
     recorded_at |-> item.recorded_at, created_at |-> t]

\* an insert loop that a failed insert aborts
RECURSIVE InsertLoopAbortOnFailure(_, _, _, _)
InsertLoopAbortOnFailure(items, i, failing, t) ==
    IF i > Len(items) \/ i \in failing THEN <<>>
    ELSE <<HistoryRow(items[i], t)>> \o InsertLoopAbortOnFailure(items, i + 1, failing, t)

\* the insert loop of _save_to_database: a failed insert is skipped
RECURSIVE InsertLoop(_, _, _, _)
InsertLoop(items, i, failing, t) ==
    IF i > Len(items) THEN <<>>
    ELSE (IF i \in failing THEN <<>> ELSE <<HistoryRow(items[i], t)>>)
            \o InsertLoop(items, i + 1, failing, t)

\* the hash _update_cache stores under rate:<currency_code>
CacheData(item, t) ==
    [currency_name |-> item.currency_name, deal_base_rate |-> item.deal_base_rate,
     tts |-> Nullable(item.tts), ttb |-> Nullable(item.ttb), source |-> item.source,
     last_updated_at |-> item.recorded_at, expires_at |-> t + CacheTtlSeconds]

\* a cache loop that a failed set_hash aborts
RECURSIVE CacheLoopAbortOnFailure(_, _, _)
CacheLoopAbortOnFailure(items, i, failing) ==
    IF i > Len(items) \/ i \in failing THEN <<>>
    ELSE <<items[i]>> \o CacheLoopAbortOnFailure(items, i + 1, failing)

\* the set_hash calls of _update_cache that succeeded, in order
RECURSIVE CacheLoop(_, _, _)
CacheLoop(items, i, failing) ==
    IF i > Len(items) THEN <<>>
    ELSE (IF i \in failing THEN <<>> ELSE <<items[i]>>) \o CacheLoop(items, i + 1, failing)

RECURSIVE ApplyCacheWrites(_, _, _)
ApplyCacheWrites(c, written, t) ==
    IF written = <<>> THEN c
    ELSE LET item == Head(written)
             key == item.currency_code
         IN  ApplyCacheWrites(
                 [k \in DOMAIN c \cup {key} |-> IF k = key THEN CacheData(item, t) ELSE c[k]],
                 Tail(written), t)

\* the event _send_update_events publishes for one record
EventData(item, t) ==
    [currency_code |-> item.currency_code, deal_base_rate |-> item.deal_base_rate,
     source |-> item.source, recorded_at |-> item.recorded_at, updated_at |-> t]

\* a publish loop that a failed publish aborts
RECURSIVE PublishLoopAbortOnFailure(_, _, _, _)
PublishLoopAbortOnFailure(items, i, failing, t) ==
    IF i > Len(items) \/ i \in failing THEN <<>>
    ELSE <<EventData(items[i], t)>> \o PublishLoopAbortOnFailure(items, i + 1, failing, t)

\* the loop of _send_update_events: send_exchange_rate_update is called once
\* per record; it returns True when Kafka or the SQS fallback accepted the
\* message and raises MessagingError when both failed, which is skipped
RECURSIVE PublishLoop(_, _, _, _)
PublishLoop(items, i, failing, t) ==
    IF i > Len(items) THEN <<>>
    ELSE (IF i \in failing THEN <<>> ELSE <<EventData(items[i], t)>>)
            \o PublishLoop(items, i + 1, failing, t)

----------------------------------------------------------------------------
(* The pipeline: one source's outcome through process_exchange_rate_data *)

PipelineBokResponses ==
    { RequestError,
      Json([has_rows |-> TRUE, rows |-> <<BokRow({"miguk"}, Num(135025000))>>]),
      Json([has_rows |-> TRUE, rows |-> <<BokRow({"miguk"}, Num(135024000))>>]),
      Json([has_rows |-> TRUE, rows |-> <<BokRow({"miguk"}, Num(135024500))>>]),
      Json([has_rows |-> TRUE,
            rows |-> <<BokRow({"miguk"}, Num(135025000)), BokRow({"miguk"}, Num(135024500))>>]),
      Json([has_rows |-> TRUE,
            rows |-> <<BokRow({"miguk"}, Num(3)), BokRow({"ilbon"}, Num(1000000000)),
                       BokRow({"jungguk"}, Num(1000000001))>>]) }

PipelineExchangerateResponses ==
    { Json([has_rates |-> FALSE, rates |-> <<>>]),
      Json([has_rates |-> TRUE, rates |-> << <<"USD", Num(740)>>, <<"JPY", Num(0)>> >>]) }

PipelineFixerResponses ==
    { Json([has_rates |-> TRUE,
            rates |-> << <<"KRW", Num(13502500)>>, <<"USD", Num(10000)>> >>]) }

PipelineResponses(source_id) ==
    CASE source_id = "bok" -> PipelineBokResponses
      [] source_id = "exchangerate_api" -> PipelineExchangerateResponses
      [] source_id = "fixer" -> PipelineFixerResponses

WindowTick == DedupWindowSeconds \div 2

\* The dependency that may fail in a behaviour: none, the historical store
\* (dedup queries and inserts), the cache (set_hash) or the messaging sink.
FaultModes == {"none", "store", "cache", "sink"}

LookupOutcomesNow == IF fault_mode = "store" THEN LookupOutcomes ELSE {"count"}

\* the calls, among n, that may fail on dependency dep
FailingCalls(dep, n) == IF fault_mode = dep THEN SUBSET (1..n) ELSE {{}}

\* process_exchange_rate_data returns
Return ==
    /\ ppc' = "idle"
    /\ collection_result' = NoResult
    /\ cleaned' = <<>>
    /\ processed_data' = <<>>
    /\ lookups' = <<>>

\* the driver obtains the outcome of one source (run_single_collection)
Collect(s) ==
    /\ ppc = "idle"
    /\ runs < MaxRuns
    /\ SourceActive(s)
    /\ \E resp \in PipelineResponses(s) :
          collection_result' = collect_from_source(s, resp, now)
    /\ ppc' = "collected"
    /\ runs' = runs + 1
    /\ cleaned' = <<>>
    /\ processed_data' = <<>>
    /\ lookups' = <<>>
    /\ failures' = NoFailures
    /\ saved_count' = 0
    /\ raised' = FALSE
    /\ UNCHANGED <<now, bok_api_key, fault_mode, setup_vars, ranking_vars, messaging_vars, exit_vars, retention_vars, driver_vars, step_vars, collector_vars, store, cache, cache_writes,
                   events, reader_vars>>

\* a processing that reports an outcome without data to the messaging sink
CleanAndTransformReportingNoData ==
    /\ ppc = "collected"
    /\ IF ~collection_result.success \/ collection_result.raw_data = <<>>
       THEN /\ Return
            /\ events' = Append(events, [source |-> collection_result.source])
       ELSE LET data == clean_and_transform_data(collection_result.raw_data,
                                                 collection_result.source)
            IN  /\ cleaned' = data
                /\ processed_data' = data
                /\ ppc' = "dedup"
                /\ UNCHANGED <<collection_result, lookups, events>>
    /\ UNCHANGED <<now, bok_api_key, fault_mode, setup_vars, ranking_vars, messaging_vars, exit_vars, retention_vars, driver_vars, step_vars, collector_vars, store, cache,
                   cache_writes, runs, failures, saved_count, raised, reader_vars>>

\* process_exchange_rate_data up to the dedup stage
CleanAndTransform ==
    /\ ppc = "collected"
    /\ IF ~collection_result.success \/ collection_result.raw_data = <<>>
       THEN Return
       ELSE LET data == clean_and_transform_data(collection_result.raw_data,
                                                 collection_result.source)
            IN  IF data = <<>> THEN Return
                ELSE /\ cleaned' = data
                     /\ processed_data' = data
                     /\ ppc' = "dedup"
                     /\ UNCHANGED <<collection_result, lookups>>
    /\ UNCHANGED <<now, bok_api_key, fault_mode, setup_vars, ranking_vars, messaging_vars, exit_vars, retention_vars, driver_vars, step_vars, collector_vars, store, cache,
                   cache_writes, events, runs, failures, saved_count, raised, reader_vars>>

\* processed_data = await self._filter_duplicates(processed_data)
FilterDuplicates ==
    /\ ppc = "dedup"
    /\ \E outcomes \in [1..Len(processed_data) -> LookupOutcomesNow] :
          /\ processed_data' = filter_duplicates(processed_data, outcomes, now)
          /\ lookups' = Issued(outcomes)
    /\ ppc' = "save"
    /\ UNCHANGED <<now, bok_api_key, fault_mode, setup_vars, ranking_vars, messaging_vars, exit_vars, retention_vars, driver_vars, step_vars, collector_vars, collection_result, cleaned, store,
                   cache, cache_writes, events, runs, failures, saved_count, raised,
                   reader_vars>>

\* a persistence stage that is handed the records as they were before dedup
SaveToDatabaseBeforeDedup ==
    /\ ppc = "save"
    /\ \E failed \in FailingCalls("store", Len(cleaned)) :
          LET inserted == InsertLoop(cleaned, 1, failed, now)
          IN  /\ store' = store \o inserted
              /\ saved_count' = Len(inserted)
              /\ failures' = [failures EXCEPT !.store = failed]
    /\ ppc' = "cache"
    /\ UNCHANGED <<now, bok_api_key, fault_mode, setup_vars, ranking_vars, messaging_vars, exit_vars, retention_vars, driver_vars, step_vars, collector_vars, collection_result, cleaned,
                   processed_data, lookups, cache, cache_writes, events, runs, raised,
                   reader_vars>>

\* saved_count = await self._save_to_database(processed_data)
SaveToDatabase ==
    /\ ppc = "save"
    /\ \E failed \in FailingCalls("store", Len(processed_data)) :
          LET inserted == InsertLoop(processed_data, 1, failed, now)
          IN  /\ store' = store \o inserted
              /\ saved_count' = Len(inserted)
              /\ failures' = [failures EXCEPT !.store = failed]
    /\ ppc' = "cache"
    /\ UNCHANGED <<now, bok_api_key, fault_mode, setup_vars, ranking_vars, messaging_vars, exit_vars, retention_vars, driver_vars, step_vars, collector_vars, collection_result, cleaned,
                   processed_data, lookups, cache, cache_writes, events, runs, raised,
                   reader_vars>>

\* await self._update_cache(processed_data)
UpdateCache ==
    /\ ppc = "cache"
    /\ \E failed \in FailingCalls("cache", Len(processed_data)) :
          LET written == CacheLoop(processed_data, 1, failed)
          IN  /\ cache' = ApplyCacheWrites(cache, written, now)
              /\ cache_writes' = cache_writes \o written
              /\ failures' = [failures EXCEPT !.cache = failed]
    /\ ppc' = "notify"
    /\ UNCHANGED <<now, bok_api_key, fault_mode, setup_vars, ranking_vars, messaging_vars, exit_vars, retention_vars, driver_vars, step_vars, collector_vars, collection_result, cleaned,
                   processed_data, lookups, store, events, runs, saved_count, raised,
                   reader_vars>>

\* await self._send_update_events(processed_data)
SendUpdateEvents ==
    /\ ppc = "notify"
    /\ \E failed \in FailingCalls("sink", Len(processed_data)) :
          /\ events' = events \o PublishLoop(processed_data, 1, failed, now)
          /\ failures' = [failures EXCEPT !.sink = failed]
    /\ Return
    /\ UNCHANGED <<now, bok_api_key, fault_mode, setup_vars, ranking_vars, messaging_vars, exit_vars, retention_vars, driver_vars, step_vars, collector_vars, store, cache, cache_writes, runs,
                   saved_count, raised, reader_vars>>

\* time passes while a collected outcome waits for its processing (the next
\* collection is taken at the time the clock has then reached)
TickWindow ==
    /\ ppc = "collected"
    /\ now < MaxWindowTicks * WindowTick
    /\ now' = now + WindowTick
    /\ UNCHANGED <<bok_api_key, fault_mode, setup_vars, ranking_vars, messaging_vars, exit_vars, retention_vars, driver_vars, step_vars, collector_vars, pipeline_vars, reader_vars>>

PipelineInit ==
    /\ IdleState
    /\ fault_mode \in FaultModes
    /\ warning_enabled = TRUE
    /\ structured_logger = TRUE
    /\ mode = "single"

PipelineNext ==
    \/ \E s \in Sources : Collect(s)
    \/ CleanAndTransform
    \/ FilterDuplicates
    \/ SaveToDatabase
    \/ UpdateCache
    \/ SendUpdateEvents
    \/ TickWindow

SpecPipeline == PipelineInit /\ [][PipelineNext]_vars

----------------------------------------------------------------------------
(* Retention: cleanup_old_data beside the write pipeline *)

SecondsPerDay == 86400            \* timedelta(days=retention_days)

\* the retention periods explored, in days
RetentionDays == {1, 2}

\* a cleanup that also deletes the rows recorded exactly at the cutoff
cleanup_old_data_inclusive(rows, cutoff_date) ==
    SelectSeq(rows, LAMBDA row : ~(row.recorded_at <= cutoff_date))

\* DELETE FROM exchange_rate_history WHERE recorded_at < cutoff_date
cleanup_old_data(rows, cutoff_date) ==
    SelectSeq(rows, LAMBDA row : ~(row.recorded_at < cutoff_date))

\* DataProcessor.cleanup_old_data, called between two pipeline runs: the
\* DELETE is executed, or execute_update raises, nothing is deleted and the
\* call raises DatabaseError
CleanupOldData ==
    /\ ppc = "idle"
    /\ cleanup_call.n < MaxCleanups
    /\ \E retention_days \in RetentionDays :
          LET cutoff_date == now - retention_days * SecondsPerDay
              call == [n |-> cleanup_call.n + 1, retention_days |-> retention_days,
                       cutoff_date |-> cutoff_date, raised |-> FALSE]
          IN  \/ /\ store' = cleanup_old_data(store, cutoff_date)
                 /\ cleanup_call' = call
              \/ /\ fault_mode = "store"
                 /\ store' = store
                 /\ cleanup_call' = [call EXCEPT !.raised = TRUE]
    /\ UNCHANGED <<now, bok_api_key, fault_mode, setup_vars, ranking_vars, messaging_vars, exit_vars, driver_vars, step_vars,
                   collector_vars, ppc, collection_result, cleaned, processed_data, lookups,
                   cache, cache_writes, events, runs, failures, saved_count, raised,
                   reader_vars>>

\* a day passes between two pipeline runs
TickDay ==
    /\ ppc = "idle"
    /\ now < MaxDays * SecondsPerDay
    /\ now' = now + SecondsPerDay
    /\ UNCHANGED <<bok_api_key, fault_mode, setup_vars, ranking_vars, messaging_vars, exit_vars, driver_vars, step_vars,
                   retention_vars, collector_vars, pipeline_vars, reader_vars>>

RetentionInit ==
    /\ IdleState
    /\ fault_mode \in {"none", "store"}
    /\ warning_enabled = TRUE
    /\ structured_logger = TRUE
    /\ mode = "single"

RetentionNext ==
    \/ \E s \in Sources : Collect(s)
    \/ CleanAndTransform
    \/ FilterDuplicates
    \/ SaveToDatabase
    \/ UpdateCache
    \/ SendUpdateEvents
    \/ TickDay
    \/ CleanupOldData

SpecRetention == RetentionInit /\ [][RetentionNext]_vars

----------------------------------------------------------------------------

(* The reader: CurrencyProvider.get_latest_rates of services/currency-service *)

\* currency_codes when the caller gives none
DefaultCurrencyCodes == <<"USD", "JPY", "EUR", "GBP", "CNY">>

\* redis: the hash under rate:<code> exists and has not expired at time t
Live(c, code, t) == code \in DOMAIN c /\ t < c[code].expires_at

\* CurrencyProvider._get_cached_rate.  get_hash answers ("ok") or raises
\* ("raise").  The handler of a raising get_hash calls
\* logger.warning(..., error=e) on a logging.Logger, which raises TypeError
\* when the warning is emitted, and returns None when it is filtered out.
get_cached_rate_always_miss(c, currency_code, outcome, t) ==
    IF outcome = "raise" /\ warning_enabled THEN [kind |-> "error", deal_base_rate |-> 0]
    ELSE [kind |-> "miss", deal_base_rate |-> 0]

get_cached_rate(c, currency_code, outcome, t) ==
    IF outcome = "raise"
    THEN IF warning_enabled THEN [kind |-> "error", deal_base_rate |-> 0]
         ELSE [kind |-> "miss", deal_base_rate |-> 0]
    ELSE IF Live(c, currency_code, t)
         THEN [kind |-> "hit", deal_base_rate |-> c[currency_code].deal_base_rate]
         ELSE [kind |-> "miss", deal_base_rate |-> 0]

\* the rows ORDER BY recorded_at ASC LIMIT 1 may return
OldestRows(currency_code) ==
    {i \in 1..Len(store) :
        /\ store[i].currency_code = currency_code
        /\ \A j \in 1..Len(store) :
              store[j].currency_code = currency_code
                  => store[i].recorded_at <= store[j].recorded_at}

\* the rows WHERE currency_code = %s ORDER BY recorded_at DESC LIMIT 1 may
\* return: with equal recorded_at the database may return any of them
LatestRows(currency_code) ==
    {i \in 1..Len(store) :
        /\ store[i].currency_code = currency_code
        /\ \A j \in 1..Len(store) :
              store[j].currency_code = currency_code
                  => store[j].recorded_at <= store[i].recorded_at}

\* a query that forgets WHERE currency_code = %s
get_rate_from_db_any_currency(currency_code, outcome, pick) ==
    IF outcome = "raise" THEN [kind |-> "error", row |-> 0]
    ELSE IF store = <<>> THEN [kind |-> "none", row |-> 0]
    ELSE [kind |-> "row", row |-> Len(store)]

\* CurrencyProvider._get_rate_from_db: pick is the row the database returns
\* among LatestRows
get_rate_from_db(currency_code, outcome, pick) ==
    IF outcome = "raise" THEN [kind |-> "error", row |-> 0]
    ELSE IF LatestRows(currency_code) = {} THEN [kind |-> "none", row |-> 0]
    ELSE [kind |-> "row", row |-> pick[currency_code]]

\* CurrencyProvider._cache_rate: the hash stored under rate:<code> with
\* self.cache_ttl; a failing set_hash leaves the cache as it was
cache_rate(c, currency_code, row, outcome, t) ==
    IF outcome = "raise" THEN c
    ELSE [k \in DOMAIN c \cup {currency_code} |->
            IF k = currency_code
            THEN [currency_name |-> row.currency_name, deal_base_rate |-> row.deal_base_rate,
                  tts |-> row.tts, ttb |-> row.ttb, source |-> row.source,
                  last_updated_at |-> row.recorded_at, expires_at |-> t + cache_ttl]
            ELSE c[k]]

\* rates[currency_code] = value
SetRate(rates, currency_code, value) ==
    [k \in DOMAIN rates \cup {currency_code} |-> IF k = currency_code THEN value ELSE rates[k]]

Outcome(failed, currency_code) == IF currency_code \in failed THEN "raise" ELSE "ok"

\* a loop body that caches the rate before it records it
ResolveCacheFirst(acc, currency_code, req, pick, t) ==
    LET cached_rate == get_cached_rate(acc.cache, currency_code,
                                       Outcome(req.cache_read, currency_code), t)
        db_rate == get_rate_from_db(currency_code, Outcome(req.db, currency_code), pick)
        asked == [acc EXCEPT !.queried = @ \cup {currency_code}]
    IN  IF cached_rate.kind = "error" THEN acc
        ELSE IF cached_rate.kind = "hit"
        THEN [acc EXCEPT !.rates = SetRate(@, currency_code, cached_rate.deal_base_rate),
                         !.cache_hits = @ + 1]
        ELSE IF db_rate.kind # "row" THEN asked
        ELSE IF currency_code \in req.cache_write THEN asked
        ELSE [asked EXCEPT
                !.rates = SetRate(@, currency_code, store[db_rate.row].deal_base_rate),
                !.cache = cache_rate(@, currency_code, store[db_rate.row], "ok", t)]

\* a loop body that renews the TTL of an entry it is served from
ResolveRenewingHit(acc, currency_code, req, pick, t) ==
    LET cached_rate == get_cached_rate(acc.cache, currency_code,
                                       Outcome(req.cache_read, currency_code), t)
        db_rate == get_rate_from_db(currency_code, Outcome(req.db, currency_code), pick)
        asked == [acc EXCEPT !.queried = @ \cup {currency_code}]
    IN  IF cached_rate.kind = "error" THEN acc
        ELSE IF cached_rate.kind = "hit"
        THEN [acc EXCEPT !.rates = SetRate(@, currency_code, cached_rate.deal_base_rate),
                         !.cache_hits = @ + 1,
                         !.cache = [@ EXCEPT ![currency_code].expires_at = t + cache_ttl]]
        ELSE IF db_rate.kind # "row" THEN asked
        ELSE [asked EXCEPT
                !.rates = SetRate(@, currency_code, store[db_rate.row].deal_base_rate),
                !.cache = cache_rate(@, currency_code, store[db_rate.row],
                                     Outcome(req.cache_write, currency_code), t)]

\* the body of the loop of get_latest_rates for one currency: an exception
\* of any of the three calls ends the iteration (except Exception: continue)
Resolve(acc, currency_code, req, pick, t) ==
    LET cached_rate == get_cached_rate(acc.cache, currency_code,
                                       Outcome(req.cache_read, currency_code), t)
        db_rate == get_rate_from_db(currency_code, Outcome(req.db, currency_code), pick)
        asked == [acc EXCEPT !.queried = @ \cup {currency_code}]
    IN  IF cached_rate.kind = "error" THEN acc
        ELSE IF cached_rate.kind = "hit"
        THEN [acc EXCEPT !.rates = SetRate(@, currency_code, cached_rate.deal_base_rate),
                         !.cache_hits = @ + 1]
        ELSE IF db_rate.kind # "row" THEN asked
        ELSE [asked EXCEPT
                !.rates = SetRate(@, currency_code, store[db_rate.row].deal_base_rate),
                !.cache = cache_rate(@, currency_code, store[db_rate.row],
                                     Outcome(req.cache_write, currency_code), t)]

RECURSIVE ResolveLoop(_, _, _, _, _)
ResolveLoop(acc, currency_codes, req, pick, t) ==
    IF currency_codes = <<>> THEN acc
    ELSE ResolveLoop(Resolve(acc, Head(currency_codes), req, pick, t),
                     Tail(currency_codes), req, pick, t)

\* the list get_latest_rates iterates over
EffectiveCodes(currency_codes) ==
    IF currency_codes = <<>> THEN DefaultCurrencyCodes ELSE currency_codes

\* the keys of the dict get_latest_rates returns; cache_hit_ratio is
\* cache_hits / len(currency_codes), kept as its two terms
ReplyKeys == {"base", "timestamp", "rates", "source", "cache_hit", "cache_hit_ratio"}

\* a source tag that reports the cache as soon as any rate was resolved
SourceOfResolved(rates, cache_hits) ==
    IF DOMAIN rates # {} THEN "redis_cache" ELSE "database"

\* "source": "redis_cache" if cache_hits > 0 else "database"
SourceOf(rates, cache_hits) ==
    IF cache_hits > 0 THEN "redis_cache" ELSE "database"

\* CurrencyProvider.get_latest_rates at time t
get_latest_rates(req, pick, t) ==
    LET currency_codes == EffectiveCodes(req.currency_codes)
        acc == ResolveLoop([rates |-> <<>>, cache_hits |-> 0, cache |-> cache, queried |-> {}],
                           currency_codes, req, pick, t)
    IN  [reply |-> [raised |-> FALSE, keys |-> ReplyKeys, rates |-> acc.rates,
                    source |-> SourceOf(acc.rates, acc.cache_hits),
                    cache_hit |-> acc.cache_hits > 0, cache_hits |-> acc.cache_hits,
                    requested |-> Len(currency_codes), timestamp |-> t],
         cache |-> acc.cache, queried |-> acc.queried]

\* the currencies of the modelled requests
ReaderCurrencies == {"USD", "JPY"}

\* every currency a modelled request can ask for
AllCurrencies == {DefaultCurrencyCodes[i] : i \in 1..Len(DefaultCurrencyCodes)}

\* the currency_codes arguments explored
Requests == {<<>>, <<"USD">>, <<"USD", "JPY">>}

\* the dependency failures explored, per call: none, one call failing for
\* one currency, or the cache wholly unavailable
FaultPatterns ==
    {[cache_read |-> {}, db |-> {}, cache_write |-> {}],
     [cache_read |-> AllCurrencies, db |-> {}, cache_write |-> AllCurrencies]}
    \cup {[cache_read |-> {code}, db |-> {}, cache_write |-> {}] : code \in ReaderCurrencies}
    \cup {[cache_read |-> {}, db |-> {code}, cache_write |-> {}] : code \in ReaderCurrencies}
    \cup {[cache_read |-> {}, db |-> {}, cache_write |-> {code}] : code \in ReaderCurrencies}

\* the records the ingestor delivers while the reader is observed
ReaderRecords(t) ==
    { ExchangeRate(code_rate[1], get_currency_name(code_rate[1]), code_rate[2],
                   Tts(code_rate[2]), Ttb(code_rate[2]), "bok", t) :
        code_rate \in {<<"USD", 13500000>>, <<"USD", 13502500>>, <<"JPY", 90000>>} }

\* the rows the database may return per currency
Picks == {pick \in [ReaderCurrencies -> 0..Len(store)] :
            \A code \in ReaderCurrencies :
                IF LatestRows(code) = {} THEN pick[code] = 0
                ELSE pick[code] \in LatestRows(code)}

GetLatestRates ==
    /\ calls < MaxCalls
    /\ \E currency_codes \in Requests, pick \in Picks, faults \in FaultPatterns :
          LET req == [currency_codes |-> currency_codes, cache_read |-> faults.cache_read,
                      db |-> faults.db, cache_write |-> faults.cache_write]
          IN  \E r \in {get_latest_rates(req, pick, now)} :
                 /\ request' = req
                 /\ reply' = r.reply
                 /\ cache' = r.cache
                 /\ queried' = r.queried
    /\ calls' = calls + 1
    /\ UNCHANGED <<now, bok_api_key, fault_mode, setup_vars, ranking_vars, messaging_vars, exit_vars, retention_vars, driver_vars, step_vars, collector_vars, ppc, collection_result,
                   cleaned, processed_data, lookups, store, cache_writes, events, runs,
                   failures, saved_count, raised, warning_enabled>>

\* what one run of process_exchange_rate_data on a one-record result leaves
\* in the store and the cache the reader reads, up to the last observed call
IngestorWrite ==
    /\ calls < MaxCalls
    /\ Len(store) < MaxRows
    /\ \E item \in ReaderRecords(now), failed \in SUBSET {1} :
          LET unique == filter_duplicates(<<item>>, <<"count">>, now)
          IN  /\ unique # <<>>
              /\ store' = store \o InsertLoop(unique, 1, {}, now)
              /\ cache' = ApplyCacheWrites(cache, CacheLoop(unique, 1, failed), now)
    /\ UNCHANGED <<now, bok_api_key, fault_mode, setup_vars, ranking_vars, messaging_vars, exit_vars, retention_vars, driver_vars, step_vars, collector_vars, ppc, collection_result,
                   cleaned, processed_data, lookups, cache_writes, events, runs,
                   failures, saved_count, raised, reader_vars>>

ReaderTick == cache_ttl

TickReader ==
    /\ calls < MaxCalls
    /\ now < MaxReaderTicks * ReaderTick
    /\ now' = now + ReaderTick
    /\ UNCHANGED <<bok_api_key, fault_mode, setup_vars, ranking_vars, messaging_vars, exit_vars, retention_vars, driver_vars, step_vars, collector_vars, pipeline_vars, reader_vars>>

ReaderInit ==
    /\ IdleState
    /\ bok_api_key
    /\ fault_mode = "none"
    /\ warning_enabled \in BOOLEAN
    /\ structured_logger = TRUE
    /\ mode = "single"

ReaderNext ==
    \/ GetLatestRates
    \/ IngestorWrite
    \/ TickReader

SpecReader == ReaderInit /\ [][ReaderNext]_vars

----------------------------------------------------------------------------
(* One get_latest_rates call taken step by step beside the write pipeline *)

\* the call observed: get_latest_rates(["USD"]), no dependency failing
StepRequest == [currency_codes |-> <<"USD">>, cache_read |-> {}, db |-> {}, cache_write |-> {}]

\* the dict the call returns at time t
StepReply(rates, cache_hits, t) ==
    [raised |-> FALSE, keys |-> ReplyKeys, rates |-> rates,
     source |-> SourceOf(rates, cache_hits), cache_hit |-> cache_hits > 0,
     cache_hits |-> cache_hits, requested |-> 1, timestamp |-> t]

\* get_latest_rates is called
ReaderCall ==
    /\ rpc = "idle"
    /\ calls = 0
    /\ calls' = 1
    /\ request' = StepRequest
    /\ rpc' = "lookup"
    /\ UNCHANGED <<now, bok_api_key, fault_mode, setup_vars, ranking_vars, messaging_vars, exit_vars, retention_vars, driver_vars, collector_vars,
                   pipeline_vars, reply, queried, warning_enabled, db_row>>

\* cached_rate = await self._get_cached_rate(currency_code): a hit ends the
\* iteration, and with it the call
ReaderGetCachedRate ==
    /\ rpc = "lookup"
    /\ LET cached_rate == get_cached_rate(cache, "USD", "ok", now)
       IN  IF cached_rate.kind = "hit"
           THEN /\ reply' = StepReply(SetRate(<<>>, "USD", cached_rate.deal_base_rate), 1, now)
                /\ rpc' = "done"
           ELSE /\ reply' = reply
                /\ rpc' = "query"
    /\ UNCHANGED <<now, bok_api_key, fault_mode, setup_vars, ranking_vars, messaging_vars, exit_vars, retention_vars, driver_vars, collector_vars,
                   pipeline_vars, calls, request, queried, warning_enabled, db_row>>

\* db_rate = await self._get_rate_from_db(currency_code)
ReaderGetRateFromDb ==
    /\ rpc = "query"
    /\ \E pick \in Picks :
          LET db_rate == get_rate_from_db("USD", "ok", pick)
          IN  IF db_rate.kind = "row"
              THEN /\ db_row' = store[db_rate.row]
                   /\ reply' = reply
                   /\ rpc' = "fill"
              ELSE /\ db_row' = db_row
                   /\ reply' = StepReply(<<>>, 0, now)
                   /\ rpc' = "done"
    /\ queried' = {"USD"}
    /\ UNCHANGED <<now, bok_api_key, fault_mode, setup_vars, ranking_vars, messaging_vars, exit_vars, retention_vars, driver_vars, collector_vars,
                   pipeline_vars, calls, request, warning_enabled>>

\* rates[currency_code] = ...; await self._cache_rate(currency_code, db_rate)
\* and the return of the call
ReaderCacheRate ==
    /\ rpc = "fill"
    /\ cache' = cache_rate(cache, "USD", db_row, "ok", now)
    /\ reply' = StepReply(SetRate(<<>>, "USD", db_row.deal_base_rate), 0, now)
    /\ rpc' = "done"
    /\ UNCHANGED <<now, bok_api_key, fault_mode, setup_vars, ranking_vars, messaging_vars, exit_vars, retention_vars, driver_vars, collector_vars, ppc,
                   collection_result, cleaned, processed_data, lookups, store, cache_writes,
                   events, runs, failures, saved_count, raised, calls, request, queried,
                   warning_enabled, db_row>>

\* the reader and the ingestor share the cache and the store; the cache may
\* fail the ingestor's writes
InterleaveInit ==
    /\ IdleState
    /\ bok_api_key
    /\ fault_mode = "cache"
    /\ warning_enabled = TRUE
    /\ structured_logger = TRUE
    /\ mode = "single"

InterleaveNext ==
    \/ Collect("bok")
    \/ CleanAndTransform
    \/ FilterDuplicates
    \/ SaveToDatabase
    \/ UpdateCache
    \/ SendUpdateEvents
    \/ TickWindow
    \/ ReaderCall
    \/ ReaderGetCachedRate
    \/ ReaderGetRateFromDb
    \/ ReaderCacheRate

SpecInterleave == InterleaveInit /\ [][InterleaveNext]_vars

----------------------------------------------------------------------------
(* The batch driver: run_single_collection and run_kubernetes_cronjob *)

\* the provider responses explored with the driver
DriverResponses(source_id) ==
    CASE source_id = "bok" ->
            {RequestError,
             Json([has_rows |-> TRUE, rows |-> <<BokRow({"miguk"}, Num(135025000))>>])}
      [] source_id = "exchangerate_api" ->
            {Json([has_rates |-> TRUE, rates |-> << <<"USD", Num(740)>> >>])}
      [] source_id = "fixer" ->
            {Json([has_rates |-> TRUE,
                   rates |-> << <<"KRW", Num(13502500)>>, <<"USD", Num(10000)>> >>])}

\* the times at which a coroutine of a gather issued at time t may finish
FinishTimes(t) == {t, t + TickSeconds}

\* per source, a response and the time its coroutine finishes
Completions(t) ==
    {c \in [Sources -> [resp : UNION {DriverResponses(s) : s \in Sources},
                        at : FinishTimes(t)]] :
        \A s \in Sources :
            IF SourceActive(s) THEN c[s].resp \in DriverResponses(s)
            ELSE c[s] = [resp |-> RequestError, at |-> t]}

\* what collect_all_data returns for the completions c: the outcome of each
\* active source, in the order of the source table
collect_all_data(c) ==
    [i \in 1..Len(ActiveSourceIds) |->
        collect_from_source(ActiveSourceIds[i], c[ActiveSourceIds[i]].resp,
                            c[ActiveSourceIds[i]].at)]

\* the time the gather returns: when its last coroutine has finished
GatherTime(c, t) ==
    IF \E s \in Sources : SourceActive(s) /\ c[s].at > t THEN t + TickSeconds ELSE t

\* what a run of process_exchange_rate_data on one outcome at time t, with
\* every dependency healthy, leaves in the store, the cache and the sink
process_exchange_rate_data(result, t) ==
    LET data == clean_and_transform_data(result.raw_data, result.source)
        unique == filter_duplicates(data, [i \in 1..Len(data) |-> "count"], t)
    IN  IF ~result.success \/ result.raw_data = <<>> \/ data = <<>>
        THEN [store |-> store, cache |-> cache, cache_writes |-> cache_writes,
              events |-> events]
        ELSE [store |-> store \o InsertLoop(unique, 1, {}, t),
              cache |-> ApplyCacheWrites(cache, CacheLoop(unique, 1, {}), t),
              cache_writes |-> cache_writes \o CacheLoop(unique, 1, {}),
              events |-> events \o PublishLoop(unique, 1, {}, t)]

\* what the driver did with an outcome
Handled(source, outcome) == [source |-> source, outcome |-> outcome]

\* a collection that publishes the outcome of each source to the messaging sink
RunSingleCollectionPublishing ==
    /\ mode = "single"
    /\ dpc \in {"idle", "completed", "failed"}
    /\ runs < MaxDriverRuns
    /\ \E c \in Completions(now) :
          /\ collection_results' = collect_all_data(c)
          /\ events' = events \o [i \in 1..Len(ActiveSourceIds) |->
                                     [source |-> ActiveSourceIds[i]]]
          /\ now' = GatherTime(c, now)
    /\ dpc' = "loop"
    /\ position' = 1
    /\ handled' = <<>>
    /\ runs' = runs + 1
    /\ exit_code' = Running
    /\ cleanup_ran' = FALSE
    /\ UNCHANGED <<bok_api_key, fault_mode, setup_vars, ranking_vars, messaging_vars, retention_vars, step_vars, cpc, started_at, task,
                   completed, ppc, collection_result, cleaned, processed_data, lookups,
                   store, cache, cache_writes, failures, saved_count, raised,
                   reader_vars>>

\* run_single_collection up to its loop: one invocation of the service in
\* single mode collects from all sources
RunSingleCollection ==
    /\ mode = "single"
    /\ dpc \in {"idle", "completed", "failed"}
    /\ runs < MaxDriverRuns
    /\ \E c \in Completions(now) :
          /\ collection_results' = collect_all_data(c)
          /\ now' = GatherTime(c, now)
    /\ dpc' = "loop"
    /\ position' = 1
    /\ handled' = <<>>
    /\ runs' = runs + 1
    /\ exit_code' = Running
    /\ cleanup_ran' = FALSE
    /\ UNCHANGED <<bok_api_key, fault_mode, setup_vars, ranking_vars, messaging_vars, retention_vars, step_vars, cpc, started_at, task,
                   completed, ppc, collection_result, cleaned, processed_data, lookups,
                   store, cache, cache_writes, events, failures, saved_count, raised,
                   reader_vars>>

\* the effects of one call of process_exchange_rate_data by the driver
Processed(r) ==
    /\ store' = r.store
    /\ cache' = r.cache
    /\ cache_writes' = r.cache_writes
    /\ events' = r.events

\* one iteration of the loop of run_single_collection.  The call of
\* process_exchange_rate_data returns, or raises DataProcessingError (its
\* except clause re-raises whatever its body raised) before its first or
\* after its last write; the call is not wrapped, so the exception leaves
\* the loop and run_single_collection re-raises it.
HandleResult ==
    /\ dpc = "loop"
    /\ position <= Len(collection_results)
    /\ LET result == collection_results[position]
           r == process_exchange_rate_data(result, now)
       IN  IF result.success
           THEN \/ /\ Processed(r)
                   /\ handled' = Append(handled, Handled(result.source, "processed"))
                   /\ position' = position + 1
                   /\ dpc' = dpc
                   /\ UNCHANGED exit_vars
                \/ /\ \/ Processed(r)
                      \/ UNCHANGED <<store, cache, cache_writes, events>>
                   /\ handled' = Append(handled, Handled(result.source, "raised"))
                   /\ position' = position
                   /\ dpc' = "failed"
                   /\ exit_code' = 1
                   /\ cleanup_ran' = TRUE
           ELSE /\ handled' = Append(handled, Handled(result.source, "warned"))
                /\ position' = position + 1
                /\ dpc' = dpc
                /\ UNCHANGED <<store, cache, cache_writes, events, exit_vars>>
    /\ UNCHANGED <<now, bok_api_key, fault_mode, setup_vars, ranking_vars, messaging_vars, retention_vars, step_vars, collector_vars, ppc,
                   collection_result, cleaned, processed_data, lookups, runs, failures,
                   saved_count, raised, reader_vars>>

\* the loop of run_single_collection has handled every outcome
LoopDone ==
    /\ dpc = "loop"
    /\ position > Len(collection_results)
    /\ dpc' = "completed"
    /\ exit_code' = 0
    /\ cleanup_ran' = TRUE
    /\ UNCHANGED <<now, bok_api_key, fault_mode, setup_vars, ranking_vars, messaging_vars, retention_vars, step_vars, collector_vars,
                   pipeline_vars, reader_vars, position, handled>>

\* run_kubernetes_cronjob: its second statement calls set_correlation_id,
\* a name main.py imports only inside other functions, so the call raises
\* NameError before the try block and nothing is collected or processed
RunKubernetesCronjob ==
    /\ mode = "cronjob"
    /\ dpc = "idle"
    /\ dpc' = "crashed"
    /\ exit_code' = 1
    /\ UNCHANGED cleanup_ran
    /\ UNCHANGED <<now, bok_api_key, fault_mode, setup_vars, ranking_vars, messaging_vars, retention_vars, step_vars, collector_vars,
                   pipeline_vars, reader_vars, position, handled>>

DriverInit ==
    /\ IdleState
    /\ fault_mode = "none"
    /\ warning_enabled = TRUE
    /\ structured_logger = TRUE
    /\ mode \in {"single", "cronjob"}

DriverNext ==
    \/ RunSingleCollection
    \/ HandleResult
    \/ LoopDone
    \/ RunKubernetesCronjob

SpecDriver == DriverInit /\ [][DriverNext]_vars

----------------------------------------------------------------------------
(* One collection run: collect_all_data, then each outcome through the     *)
(* stages of process_exchange_rate_data                                     *)

\* the provider of source s answers, with one of the responses explored with
\* the driver
Answer(s) ==
    /\ cpc = "gathering"
    /\ task[s].st = "pending"
    /\ now < RequestDeadline
    /\ \E resp \in DriverResponses(s) : FinishTask(s, resp)

\* the loop over collection_results hands the next outcome to
\* process_exchange_rate_data
Dispatch ==
    /\ cpc = "returned"
    /\ ppc = "idle"
    /\ position < Len(collection_results)
    /\ position' = position + 1
    /\ collection_result' = collection_results[position + 1]
    /\ ppc' = "collected"
    /\ runs' = runs + 1
    /\ cleaned' = <<>>
    /\ processed_data' = <<>>
    /\ lookups' = <<>>
    /\ failures' = NoFailures
    /\ saved_count' = 0
    /\ raised' = FALSE
    /\ UNCHANGED <<now, bok_api_key, fault_mode, setup_vars, ranking_vars, messaging_vars, exit_vars, retention_vars,
                   step_vars, collector_vars, dpc, handled, store, cache, cache_writes,
                   events, reader_vars>>

RunInit ==
    /\ IdleState
    /\ fault_mode \in FaultModes
    /\ warning_enabled = TRUE
    /\ structured_logger = TRUE
    /\ mode = "single"

RunNext ==
    \/ StartCollect
    \/ \E s \in Sources : Answer(s)
    \/ \E s \in Sources : Timeout(s)
    \/ TickCollect
    \/ GatherReturn
    \/ Dispatch
    \/ CleanAndTransform
    \/ FilterDuplicates
    \/ SaveToDatabase
    \/ UpdateCache
    \/ SendUpdateEvents

SpecRun == RunInit /\ [][RunNext]_vars

\* Scheduling.  The session timeout ends a request that is still pending at
\* its deadline, the clock advances, the event loop resumes collect_all_data
\* once every coroutine has finished, and every call of a stage on the
\* store, the cache or the sink returns or fails.  A provider is not
\* required to answer.
RunFairness ==
    /\ WF_vars(TickCollect)
    /\ \A s \in Sources : WF_vars(Timeout(s))
    /\ WF_vars(GatherReturn)
    /\ WF_vars(CleanAndTransform)
    /\ WF_vars(FilterDuplicates)
    /\ WF_vars(SaveToDatabase)
    /\ WF_vars(UpdateCache)
    /\ WF_vars(SendUpdateEvents)

SpecRunLive == SpecRun /\ RunFairness

----------------------------------------------------------------------------

(* Messaging: MessageProducer.send_message and MessageConsumer._consume_sqs *)
(* of services/shared/messaging.py                                          *)

MaxNumberOfMessages == 10         \* receive_message(MaxNumberOfMessages=10)

\* how a call on Kafka or on SQS ends
CallOutcomes == {"ok", "raise"}

\* what is left alone by the messaging module
beside_messaging == <<now, bok_api_key, fault_mode, setup_vars, ranking_vars, exit_vars, retention_vars,
                      driver_vars, step_vars, collector_vars, pipeline_vars, reader_vars>>

\* MessageProducer.initialize and MessageConsumer.initialize: the Kafka
\* producer exists when aiokafka is available, servers are configured and
\* the start succeeded; the SQS client exists outside the local environment
\* when boto3 is available
Initialize ==
    /\ ~initialized
    /\ initialized' = TRUE
    /\ kafka_producer' \in BOOLEAN
    /\ sqs_client' \in BOOLEAN
    /\ sqs_queue_url' \in BOOLEAN
    /\ UNCHANGED <<beside_messaging, kafka_topic, sqs_queue, sends, send_reply, mpc,
                   consumer_running, messages, delivery, deleted, stopped>>

Sent(topic_log, queue, outcome, tried) ==
    [kafka_topic |-> topic_log, sqs_queue |-> queue,
     reply |-> [outcome |-> outcome, tried |-> tried]]

\* a send that copies every message to SQS as well
send_message_to_both(id, kafka_outcome, sqs_outcome) ==
    LET on_kafka == kafka_producer /\ kafka_outcome = "ok"
        on_sqs == sqs_client /\ sqs_queue_url /\ sqs_outcome = "ok"
    IN  Sent(IF on_kafka THEN Append(kafka_topic, id) ELSE kafka_topic,
             IF on_sqs THEN sqs_queue \cup {id} ELSE sqs_queue,
             IF on_kafka \/ on_sqs THEN "true" ELSE "MessagingError",
             (IF kafka_producer THEN {"kafka"} ELSE {})
                 \cup (IF sqs_client /\ sqs_queue_url THEN {"sqs"} ELSE {}))

\* MessageProducer.send_message for the message with message_id id, given
\* how send_and_wait and the SQS send_message would end
send_message(id, kafka_outcome, sqs_outcome) ==
    LET tried == IF kafka_producer THEN {"kafka"} ELSE {}
    IN  IF kafka_producer /\ kafka_outcome = "ok"
        THEN Sent(Append(kafka_topic, id), sqs_queue, "true", tried)
        ELSE IF sqs_client /\ sqs_queue_url
        THEN IF sqs_outcome = "ok"
             THEN Sent(kafka_topic, sqs_queue \cup {id}, "true", tried \cup {"sqs"})
             ELSE Sent(kafka_topic, sqs_queue, "MessagingError", tried \cup {"sqs"})
        ELSE Sent(kafka_topic, sqs_queue, "MessagingError", tried)

\* one call of send_message
SendMessage ==
    /\ initialized
    /\ sends < MaxSends
    /\ \E kafka_outcome \in CallOutcomes, sqs_outcome \in CallOutcomes :
          LET sent == send_message(sends + 1, kafka_outcome, sqs_outcome)
          IN  /\ kafka_topic' = sent.kafka_topic
              /\ sqs_queue' = sent.sqs_queue
              /\ send_reply' = sent.reply
    /\ sends' = sends + 1
    /\ UNCHANGED <<beside_messaging, initialized, kafka_producer, sqs_client, sqs_queue_url,
                   mpc, consumer_running, messages, delivery, deleted, stopped>>

\* start_consuming of a consumer without a Kafka consumer: _consume_sqs is
\* entered and raises MessagingError when no queue URL is configured
StartConsuming ==
    /\ initialized
    /\ sqs_client
    /\ mpc = "idle"
    /\ consumer_running' = TRUE
    /\ mpc' = IF sqs_queue_url THEN "loop" ELSE "raised"
    /\ UNCHANGED <<beside_messaging, initialized, kafka_producer, sqs_client, sqs_queue_url,
                   kafka_topic, sqs_queue, sends, send_reply, messages, delivery, deleted,
                   stopped>>

\* the batches receive_message may return: at most MaxNumberOfMessages
\* messages of the queue, in any order
RECURSIVE Batches(_, _)
Batches(queue, n) ==
    IF n = 0 \/ queue = {} THEN {<<>>}
    ELSE {<<>>} \cup UNION {{<<m>> \o rest : rest \in Batches(queue \ {m}, n - 1)} : m \in queue}

\* while self._running: receive_message returns a batch, or raises and
\* _consume_sqs raises MessagingError
ReceiveMessage ==
    /\ mpc = "loop"
    /\ consumer_running
    /\ \/ \E batch \in Batches(sqs_queue, MaxNumberOfMessages) :
             /\ messages' = batch
             /\ mpc' = IF batch = <<>> THEN "sleeping" ELSE "handling"
       \/ /\ mpc' = "raised"
          /\ UNCHANGED messages
    /\ UNCHANGED <<beside_messaging, initialized, kafka_producer, sqs_client, sqs_queue_url,
                   kafka_topic, sqs_queue, sends, send_reply, consumer_running, delivery,
                   deleted, stopped>>

\* the loop body for a message that deletes it whatever its handler did
FinishHandlerDeleting ==
    /\ mpc = "handling"
    /\ \E handler_outcome \in CallOutcomes :
          /\ delivery' = [message |-> Head(messages), handler |-> handler_outcome,
                          deleted |-> TRUE]
          /\ sqs_queue' = sqs_queue \ {Head(messages)}
          /\ deleted' = deleted \cup {Head(messages)}
    /\ messages' = Tail(messages)
    /\ mpc' = IF Tail(messages) = <<>> THEN "sleeping" ELSE "handling"
    /\ UNCHANGED <<beside_messaging, initialized, kafka_producer, sqs_client, sqs_queue_url,
                   kafka_topic, sends, send_reply, consumer_running, stopped>>

\* the loop body for the first message of the batch, from the return of its
\* handler: json.loads or the handler raises and the message is left in the
\* queue, or the handler completes and delete_message removes the message,
\* or delete_message raises; the loop goes on to the next message
FinishHandler ==
    /\ mpc = "handling"
    /\ \E handler_outcome \in CallOutcomes, delete_outcome \in CallOutcomes :
          LET removed == handler_outcome = "ok" /\ delete_outcome = "ok"
          IN  /\ delivery' = [message |-> Head(messages), handler |-> handler_outcome,
                              deleted |-> removed]
              /\ sqs_queue' = IF removed THEN sqs_queue \ {Head(messages)} ELSE sqs_queue
              /\ deleted' = IF removed THEN deleted \cup {Head(messages)} ELSE deleted
    /\ messages' = Tail(messages)
    /\ mpc' = IF Tail(messages) = <<>> THEN "sleeping" ELSE "handling"
    /\ UNCHANGED <<beside_messaging, initialized, kafka_producer, sqs_client, sqs_queue_url,
                   kafka_topic, sends, send_reply, consumer_running, stopped>>

\* await asyncio.sleep(1) returns
Wake ==
    /\ mpc = "sleeping"
    /\ mpc' = "loop"
    /\ UNCHANGED <<beside_messaging, initialized, kafka_producer, sqs_client, sqs_queue_url,
                   kafka_topic, sqs_queue, sends, send_reply, consumer_running, messages,
                   delivery, deleted, stopped>>

\* while self._running is false: _consume_sqs returns
ExitLoop ==
    /\ mpc = "loop"
    /\ ~consumer_running
    /\ mpc' = "exited"
    /\ UNCHANGED <<beside_messaging, initialized, kafka_producer, sqs_client, sqs_queue_url,
                   kafka_topic, sqs_queue, sends, send_reply, consumer_running, messages,
                   delivery, deleted, stopped>>

\* MessageConsumer.stop, called by another task while _consume_sqs awaits
\* the handler or the sleep
Stop ==
    /\ mpc \in {"handling", "sleeping"}
    /\ ~stopped
    /\ consumer_running' = FALSE
    /\ stopped' = TRUE
    /\ UNCHANGED <<beside_messaging, initialized, kafka_producer, sqs_client, sqs_queue_url,
                   kafka_topic, sqs_queue, sends, send_reply, mpc, messages, delivery,
                   deleted>>

MessagingInit ==
    /\ IdleState
    /\ fault_mode = "none"
    /\ warning_enabled = TRUE
    /\ structured_logger = TRUE
    /\ mode = "single"

MessagingNext ==
    \/ Initialize
    \/ SendMessage
    \/ StartConsuming
    \/ ReceiveMessage
    \/ FinishHandler
    \/ Wake
    \/ ExitLoop
    \/ Stop

SpecMessaging == MessagingInit /\ [][MessagingNext]_vars

\* Scheduling.  The handler returns or raises, the sleep ends and the event
\* loop resumes _consume_sqs.  SendMessage and Stop are calls of other
\* tasks and are not required to happen.
MessagingFairness ==
    /\ WF_vars(FinishHandler)
    /\ WF_vars(Wake)
    /\ WF_vars(ExitLoop)

SpecMessagingLive == SpecMessaging /\ MessagingFairness

----------------------------------------------------------------------------

(* The rate limiter: check_rate_limit of services/ranking-service/main.py *)

\* the wall clock is carried in tenths of a second; int(time.time()) drops
\* the fraction
TenthsPerSecond == 10

\* the moments at which the first request may arrive, and the steps the wall
\* clock takes between requests, in tenths of a second
ClockStarts == {0, 9}
ClockSteps == {591, 600}

\* every variable outside the rate limiter
beside_ranking == <<now, bok_api_key, fault_mode, setup_vars, messaging_vars, exit_vars,
                    retention_vars, driver_vars, step_vars, collector_vars, pipeline_vars,
                    reader_vars>>

\* the requests a client may still make
RequestBudget(client_ip) ==
    IF client_ip = "10.0.0.1" THEN MaxRequests ELSE MaxOtherRequests

\* check_rate_limit on the store at current_time: the client's list is
\* created when missing, timestamps a window or more old are dropped, the
\* current request is appended, and the call raises RateLimitExceededError
\* when the list is longer than the limit
check_rate_limit(rate_limits, client_ip, current_time) ==
    LET previous == IF client_ip \in DOMAIN rate_limits THEN rate_limits[client_ip] ELSE <<>>
        kept == SelectSeq(previous, LAMBDA timestamp : current_time - timestamp < window)
        appended == Append(kept, current_time)
    IN  [rate_limit_store |-> [ip \in DOMAIN rate_limits \cup {client_ip} |->
                                  IF ip = client_ip THEN appended ELSE rate_limits[ip]],
         raised |-> Len(appended) > limit]

\* one request of a client reaches record_selection, whose first step is
\* check_rate_limit; the call has no await and runs in one step
CheckRateLimit(client_ip) ==
    /\ checked.n[client_ip] < RequestBudget(client_ip)
    /\ LET current_time == wall_clock \div TenthsPerSecond
           result == check_rate_limit(rate_limit_store, client_ip, current_time)
       IN  /\ rate_limit_store' = result.rate_limit_store
           /\ requests' = [requests EXCEPT ![client_ip] =
                              Append(@, [at |-> wall_clock, raised |-> result.raised])]
           /\ checked' = [client_ip |-> client_ip, raised |-> result.raised,
                          n |-> [checked.n EXCEPT ![client_ip] = @ + 1]]
    /\ UNCHANGED <<wall_clock, beside_ranking>>

\* time passes between requests
TickWallClock ==
    \E step \in ClockSteps :
        /\ wall_clock + step <= MaxWallClock
        /\ wall_clock' = wall_clock + step
        /\ UNCHANGED <<rate_limit_store, requests, checked, beside_ranking>>

RankingInit ==
    \E start \in ClockStarts :
        /\ IdleBesideWallClock
        /\ fault_mode = "none"
        /\ warning_enabled = TRUE
        /\ structured_logger = TRUE
        /\ mode = "single"
        /\ wall_clock = start

RankingNext ==
    \/ \E client_ip \in ClientIps : CheckRateLimit(client_ip)
    \/ TickWallClock

SpecRanking == RankingInit /\ [][RankingNext]_vars

----------------------------------------------------------------------------

(* Claims about the collector *)

\* a payload without the expected rates/row structure, or with a row or a
\* quote that cannot be parsed
MalformedPayload(source_id, body) ==
    CASE source_id = "bok" ->
            \/ ~body.has_rows
            \/ \E i \in 1..Len(body.rows) : body.rows[i].value.t = "text"
      [] source_id = "exchangerate_api" ->
            \/ ~body.has_rates
            \/ \E i \in 1..Len(body.rates) : body.rates[i][2].t # "num"
      [] source_id = "fixer" ->
            \/ ~body.has_rates
            \/ ~HasKey(body.rates, "KRW")
            \/ \E i \in 1..Len(body.rates) : body.rates[i][2].t # "num"

AdapterFails(source_id, resp) ==
    \/ resp.kind \in {"error", "timeout"}
    \/ resp.kind = "json" /\ MalformedPayload(source_id, resp.body)

ConfiguredActive(source_id) == source_id # "bok" \/ bok_api_key

\* C1: collect_all_data returns one outcome per active adapter; the outcome
\* of an adapter that failed (exception, timeout, malformed payload) is
\* failed, and the outcome of every other adapter is successful and carries
\* the records that adapter produced, whatever its siblings did.
C1_CollectorIsolation ==
    cpc = "returned" =>
        /\ Len(collection_results) = Cardinality({s \in Sources : ConfiguredActive(s)})
        /\ \A i \in 1..Len(collection_results) :
              LET r == collection_results[i]
                  resp == task[r.source].resp
              IN  IF AdapterFails(r.source, resp)
                  THEN ~r.success
                  ELSE /\ r.success
                       /\ r.raw_data = validate_collected_data(
                              AdapterCall(r.source, resp, r.collection_time).records,
                              r.collection_time)

\* C2: the result holds exactly one outcome per adapter that was active when
\* the run started and none for an inactive one, and it is the set of the
\* adapters' own outcomes, in whatever order the adapters completed.
C2_OneOutcomePerActiveAdapter ==
    cpc = "returned" =>
        /\ \A s \in Sources :
              Cardinality({i \in 1..Len(collection_results) :
                              collection_results[i].source = s})
                  = IF ConfiguredActive(s) THEN 1 ELSE 0
        /\ {collection_results[i] : i \in 1..Len(collection_results)}
              = {task[s].result : s \in {x \in Sources : ConfiguredActive(x)}}

\* a run without the bok key in which fixer completed before exchangerate_api
\* and exactly one of the two failed
C2_Witness ==
    /\ cpc = "returned"
    /\ ~bok_api_key
    /\ completed = <<"fixer", "exchangerate_api">>
    /\ Len(collection_results) = 2
    /\ collection_results[1].success # collection_results[2].success

\* C3: an adapter never reports success on a malformed payload: a response
\* without the expected structure, or with rows that cannot be parsed,
\* yields a failed outcome.
C3_NoSilentPartialSuccess ==
    \A s \in Sources :
        (task[s].st = "done" /\ task[s].resp.kind = "json"
            /\ MalformedPayload(s, task[s].resp.body))
        => ~task[s].result.success

\* C4: every adapter call is bounded by the session timeout: no request is
\* still running after it, an adapter that timed out yields a failed outcome
\* of its own source, and every other adapter's outcome was produced within
\* its own timeout and is what its own response makes it.
C4_IndividuallyTimeBounded ==
    \A s \in Sources :
        /\ task[s].st = "pending" => now - started_at <= ClientTimeoutTotal
        /\ task[s].st = "done" =>
              /\ task[s].result.collection_time - started_at <= ClientTimeoutTotal
              /\ task[s].result.source = s
              /\ task[s].resp = RequestTimeout => ~task[s].result.success
              /\ (task[s].resp.kind = "json" /\ ~MalformedPayload(s, task[s].resp.body))
                    => task[s].result.success

\* one adapter hung and timed out, another one answered before the timeout
\* and succeeded
C4_Witness ==
    /\ cpc = "returned"
    /\ \E s, u \in Sources :
          /\ task[s].st = "done" /\ task[s].resp = RequestTimeout
          /\ ~task[s].result.success
          /\ task[u].st = "done" /\ task[u].result.success
          /\ task[u].result.collection_time < started_at + ClientTimeoutTotal
          /\ Len(task[u].result.raw_data) > 0

----------------------------------------------------------------------------
(* Claims about cleaning and deduplication *)

\* every record the pipeline holds or has written, as <<base, tts, ttb>>
\* with tts and ttb nullable
PricedRecords ==
    {<<cleaned[i].deal_base_rate, Nullable(cleaned[i].tts), Nullable(cleaned[i].ttb)>> :
        i \in 1..Len(cleaned)}
    \cup {<<store[i].deal_base_rate, store[i].tts, store[i].ttb>> : i \in 1..Len(store)}
    \cup {<<cache[k].deal_base_rate, cache[k].tts, cache[k].ttb>> : k \in DOMAIN cache}

\* C5: no canonical record produced by cleaning has a currency code outside
\* the known-currency set, a rate <= 0 or a rate > 10000.
C5_CleaningRejectsBadRecords ==
    \A i \in 1..Len(cleaned) :
        /\ cleaned[i].currency_code \in currency_names
        /\ cleaned[i].deal_base_rate > 0
        /\ cleaned[i].deal_base_rate * 10 <= RateUpperBound

\* C6: every canonical record produced by cleaning, every persisted row and
\* every cache entry with base_rate > 0 has ttb < base_rate < tts, with
\* tts = base_rate * 1.02 and ttb = base_rate * 0.98.
C6_SpreadInvariant ==
    \A r \in PricedRecords :
        r[1] > 0 =>
            /\ ~r[2].null /\ ~r[3].null
            /\ Less(r[3], [w |-> r[1], f |-> 0])
            /\ Less([w |-> r[1], f |-> 0], r[2])
            /\ 100 * (r[2].w - r[1]) + r[2].f = 2 * r[1]
            /\ 100 * (r[1] - r[3].w) - r[3].f = 2 * r[1]

\* USD 1350.25 is persisted and cached with tts 1377.2550 and ttb 1323.2450
C6_Witness ==
    /\ \E i \in 1..Len(store) :
          /\ store[i].deal_base_rate = 13502500
          /\ store[i].tts = [null |-> FALSE, w |-> 13772550, f |-> 0]
          /\ store[i].ttb = [null |-> FALSE, w |-> 13232450, f |-> 0]
    /\ "USD" \in DOMAIN cache
    /\ cache["USD"].deal_base_rate = 13502500
    /\ cache["USD"].tts.w = 13772550

\* the store holds a row of the candidate's currency and source, recorded
\* within the last hour, whose base rate differs from the candidate's by
\* strictly less than 0.01
HasRecentNearRow(item) ==
    \E i \in 1..Len(store) :
        /\ store[i].currency_code = item.currency_code
        /\ store[i].source = item.source
        /\ now - store[i].recorded_at < DedupWindowSeconds
        /\ store[i].deal_base_rate - item.deal_base_rate < DuplicateTolerance
        /\ item.deal_base_rate - store[i].deal_base_rate < DuplicateTolerance

RECURSIVE Pick(_, _, _)
Pick(seq, i, keep) ==
    IF i > Len(seq) THEN <<>>
    ELSE (IF i \in keep THEN <<seq[i]>> ELSE <<>>) \o Pick(seq, i + 1, keep)

C8_DedupWindow ==
    (ppc = "save" /\ \A i \in 1..Len(lookups) : lookups[i] = "count") =>
        \A j \in 1..Len(cleaned) :
            LET preceded ==
                    \/ HasRecentNearRow(cleaned[j])
                    \/ \E i \in 1..(j - 1) :
                          /\ cleaned[i].currency_code = cleaned[j].currency_code
                          /\ Abs(cleaned[i].deal_base_rate - cleaned[j].deal_base_rate)
                                < DuplicateTolerance
                kept == \E k \in 1..Len(processed_data) : processed_data[k] = cleaned[j]
            IN  kept <=> ~preceded

\* the second delivery of a source is one USD record, and the store holds a
\* USD row of that source with base rate 1350.25
SecondDelivery(i) ==
    /\ ppc = "save"
    /\ fault_mode = "none"
    /\ Len(cleaned) = 1
    /\ cleaned[1].currency_code = "USD"
    /\ store[i].currency_code = "USD"
    /\ store[i].source = cleaned[1].source
    /\ store[i].deal_base_rate = 13502500

C10_LookupFailureKeepsAll ==
    (ppc = "save" /\ \E i \in 1..Len(lookups) : lookups[i] # "count")
        => processed_data = cleaned

----------------------------------------------------------------------------
(* Claims about persistence, the cache synchronizer and the event notifier *)

\* the records of processed_data whose call on dependency dep did not fail
Succeeded(failed) ==
    Pick(processed_data, 1, (1..Len(processed_data)) \ failed)

C12_TotalStoreFailureRaises ==
    (/\ ppc \in {"cache", "notify"}
     /\ processed_data # <<>>
     /\ lookups = <<"raise">>
     /\ failures.store = 1..Len(processed_data))
    => raised

\* C13: for each record passed to _update_cache the entry under the record's
\* currency code is upserted with the record's rates and a TTL of 600 s.
C13_CacheSynchronizer ==
    [][ppc = "cache" =>
          \A i \in (1..Len(processed_data)) \ failures'.cache :
              LET item == processed_data[i]
                  code == item.currency_code
                  last == \A j \in (1..Len(processed_data)) \ failures'.cache :
                              processed_data[j].currency_code = code => j <= i
              IN  /\ code \in DOMAIN cache'
                  /\ last => /\ cache'[code].deal_base_rate = item.deal_base_rate
                             /\ cache'[code].tts = Nullable(item.tts)
                             /\ cache'[code].ttb = Nullable(item.ttb)
                             /\ cache'[code].expires_at = now + 600]_vars

\* C14: for any pattern of cache write failures, process_exchange_rate_data
\* does not raise, the persisted rows are untouched by the cache stage, every
\* record whose set_hash did not fail is written to the cache, and the event
\* stage still publishes every record.
C14_CacheNeverWritePathDependency ==
    [][/\ ppc = "cache" =>
            /\ ppc' = "notify"
            /\ ~raised'
            /\ store' = store
            /\ processed_data' = processed_data
            /\ cache_writes' = cache_writes \o Succeeded(failures'.cache)
       /\ (ppc = "notify" /\ fault_mode = "cache") =>
            /\ ppc' = "idle"
            /\ ~raised'
            /\ store' = store
            /\ Len(events') = Len(events) + Len(processed_data)]_vars

\* a run of two records whose first cache write failed: both are persisted,
\* the second is cached and both are published
C14_Witness ==
    /\ ppc = "idle"
    /\ failures.cache = {1}
    /\ Len(store) = 2
    /\ Len(cache_writes) = 1
    /\ Len(events) = 2

\* C15: _send_update_events publishes one event per record, in order; a
\* publish that raises produces no event, is not retried, does not stop the
\* publishes of the remaining records and does not make
\* process_exchange_rate_data raise.
C15_EventNotifier ==
    [][ppc = "notify" =>
          LET ok == Succeeded(failures'.sink)
          IN  /\ ppc' = "idle"
              /\ ~raised'
              /\ store' = store /\ cache' = cache
              /\ events' = events \o [i \in 1..Len(ok) |-> EventData(ok[i], now)]]_vars

\* a run of two records whose first publish raised: the second is published
C15_Witness ==
    /\ ppc = "idle"
    /\ failures.sink = {1}
    /\ Len(store) = 2
    /\ Len(events) = 1
    /\ events[1].deal_base_rate = store[2].deal_base_rate

----------------------------------------------------------------------------
(* Claims about the reader *)

\* the step is a call of get_latest_rates
IsCall == calls' = calls + 1

\* the currencies a request asks for
RequestedCodes(req) ==
    {EffectiveCodes(req.currency_codes)[i] : i \in 1..Len(EffectiveCodes(req.currency_codes))}

HasRow(code) == \E i \in 1..Len(store) : store[i].currency_code = code

\* the base rates of the stored rows of a currency with the greatest
\* recorded_at
LatestRates(code) ==
    {store[i].deal_base_rate : i \in {i \in 1..Len(store) :
        /\ store[i].currency_code = code
        /\ ~\E j \in 1..Len(store) :
              store[j].currency_code = code /\ store[j].recorded_at > store[i].recorded_at}}

\* C16: for each requested currency whose cache entry is present and
\* unexpired, get_latest_rates returns the cached base rate and does not
\* query the historical store for it.
C16_CacheHit ==
    [][IsCall =>
          \A code \in RequestedCodes(request') :
              (Live(cache, code, now) /\ code \notin request'.cache_read) =>
                  /\ code \in DOMAIN reply'.rates
                  /\ reply'.rates[code] = cache[code].deal_base_rate
                  /\ code \notin queried'
                  /\ reply'.source = "redis_cache"]_vars

\* USD is answered from the cache although the store holds a newer rate
C16_Witness ==
    /\ calls > 0
    /\ request.currency_codes = <<"USD">>
    /\ reply.cache_hits = 1
    /\ queried = {}
    /\ reply.rates["USD"] = cache["USD"].deal_base_rate
    /\ \E i \in 1..Len(store) :
          store[i].currency_code = "USD" /\ store[i].deal_base_rate # reply.rates["USD"]

\* C17: a requested currency with no live cache entry and a stored row is
\* answered with the base rate of the stored row with the greatest
\* recorded_at, with source database when no requested currency was a cache
\* hit, and that rate is written to the cache with a TTL of 600 s; the next
\* call before the entry expires, with no write in between, returns the same
\* value with source redis_cache.
C17_ReadThroughFill ==
    [][IsCall =>
          \A code \in RequestedCodes(request') :
              code \notin request'.cache_read =>
                  /\ (~Live(cache, code, now) /\ HasRow(code) /\ code \notin request'.db) =>
                        /\ code \in DOMAIN reply'.rates
                        /\ reply'.rates[code] \in LatestRates(code)
                        /\ (\A other \in RequestedCodes(request') :
                                ~Live(cache, other, now) \/ other \in request'.cache_read)
                              => reply'.source = "database"
                        /\ code \notin request'.cache_write =>
                              /\ code \in DOMAIN cache'
                              /\ cache'[code].deal_base_rate = reply'.rates[code]
                              /\ cache'[code].expires_at = now + 600
                  /\ (/\ calls > 0
                      /\ reply.source = "database"
                      /\ code \in DOMAIN reply.rates
                      /\ code \in queried
                      /\ code \notin request.cache_write
                      /\ code \in DOMAIN cache
                      /\ cache[code].expires_at = reply.timestamp + 600
                      /\ now < cache[code].expires_at) =>
                        /\ code \in DOMAIN reply'.rates
                        /\ reply'.rates[code] = reply.rates[code]
                        /\ reply'.source = "redis_cache"]_vars

\* of two stored USD rows the later one was returned and filled into the
\* cache by the first call, and the second call answered from that entry
C17_Witness ==
    /\ calls = 2
    /\ reply.source = "redis_cache"
    /\ queried = {}
    /\ "USD" \in DOMAIN reply.rates
    /\ "USD" \in DOMAIN cache
    /\ cache["USD"].expires_at - cache_ttl <= reply.timestamp
    /\ reply.timestamp < cache["USD"].expires_at
    /\ \E i, j \in 1..Len(store) :
          /\ store[i].currency_code = "USD" /\ store[j].currency_code = "USD"
          /\ store[i].recorded_at < store[j].recorded_at
          /\ store[i].deal_base_rate # store[j].deal_base_rate
          /\ reply.rates["USD"] = store[j].deal_base_rate

\* C18: with healthy dependencies the returned rates map contains exactly
\* the requested currencies that have a live cache entry or a stored row; a
\* currency with neither is omitted and the call does not raise.
C18_PartialResultReader ==
    [][(IsCall /\ request'.cache_read = {} /\ request'.db = {}) =>
          /\ ~reply'.raised
          /\ DOMAIN reply'.rates
                = {code \in RequestedCodes(request') :
                      Live(cache, code, now) \/ HasRow(code)}]_vars

\* USD and JPY are requested, only USD is stored: the map holds USD alone
C18_Witness ==
    /\ calls > 0
    /\ request = [currency_codes |-> <<"USD", "JPY">>, cache_read |-> {}, db |-> {},
                  cache_write |-> {}]
    /\ ~reply.raised
    /\ DOMAIN reply.rates = {"USD"}
    /\ "JPY" \notin DOMAIN cache
    /\ \A i \in 1..Len(store) : store[i].currency_code = "USD"

\* errors that occurred while the call of this step resolved a currency
CacheReadError(code) == code \in request'.cache_read
StoreError(code) == code \in request'.db /\ code \in queried'
CacheWriteError(code) ==
    /\ code \in request'.cache_write
    /\ code \in queried'
    /\ code \notin request'.db
    /\ HasRow(code)

\* what a call returns for a currency it resolves from the cache
FromCache(code) ==
    /\ code \in DOMAIN reply'.rates
    /\ reply'.rates[code] = cache[code].deal_base_rate

\* what a call returns for a currency it resolves from the store
FromStore(code) ==
    IF HasRow(code)
    THEN code \in DOMAIN reply'.rates /\ reply'.rates[code] \in LatestRates(code)
    ELSE code \notin DOMAIN reply'.rates

\* what a call returns for a currency whose resolution met no error
Unaffected(code) ==
    IF Live(cache, code, now) THEN FromCache(code) ELSE FromStore(code)

C20_CacheUnavailable ==
    [][(/\ IsCall
        /\ request'.db = {}
        /\ RequestedCodes(request') \subseteq request'.cache_read
        /\ RequestedCodes(request') \subseteq request'.cache_write) =>
          \A code \in RequestedCodes(request') :
              HasRow(code) =>
                  /\ code \in DOMAIN reply'.rates
                  /\ reply'.rates[code] \in LatestRates(code)]_vars

\* the requested currencies the call of this step serves from the cache: the
\* entry is live and the cache read does not fail
ServedFromCache ==
    {code \in RequestedCodes(request') :
        Live(cache, code, now) /\ code \notin request'.cache_read}

\* C21: the source tag of the snapshot is redis_cache when at least one
\* requested currency was served from the cache and database otherwise, also
\* when every rate came from the store or nothing was resolved, and cache_hit
\* is true exactly when the tag is redis_cache.
C21_SourceTag ==
    [][IsCall =>
          /\ reply'.source = IF ServedFromCache # {} THEN "redis_cache" ELSE "database"
          /\ reply'.cache_hit = (reply'.source = "redis_cache")]_vars

\* a call that took USD from the cache and JPY from the store, after a call
\* that resolved a rate from the store alone
C21_Witness ==
    /\ calls = 2
    /\ request.currency_codes = <<"USD", "JPY">>
    /\ reply.cache_hits = 1
    /\ queried = {"JPY"}
    /\ DOMAIN reply.rates = {"USD", "JPY"}
    /\ reply.source = "redis_cache"
    /\ reply.cache_hit

\* C22: the snapshot carries cache_stats with hits, the number of requested
\* currencies served from the cache, and misses, the number not served from
\* the cache, and the two add up to the number of requested currencies.
C22_CacheStats ==
    calls > 0 =>
        /\ "cache_stats" \in reply.keys
        /\ reply.cache_hits <= reply.requested

----------------------------------------------------------------------------
(* Claims about the write pipeline as a whole *)

\* a canonical record handed to cleaning again: its base rate as a raw rate
AsRaw(item) ==
    RawExchangeRateData(item.currency_code, 10 * item.deal_base_rate, item.source,
                        item.recorded_at)

\* C24: cleaning is idempotent: the base rate of a canonical record, cleaned
\* again as a raw record, yields the same base_rate, tts and ttb; the spread
\* is taken from the base rate once and never from a spread value.
C24_IdempotentCleaning ==
    \A i \in 1..Len(cleaned) :
        LET again == clean_and_transform_data(<<AsRaw(cleaned[i])>>, cleaned[i].source)
        IN  /\ Len(again) = 1
            /\ again[1].deal_base_rate = cleaned[i].deal_base_rate
            /\ again[1].tts = cleaned[i].tts
            /\ again[1].ttb = cleaned[i].ttb

\* a cleaned record whose raw rate was rounded and whose spread is not zero
C24_Witness ==
    /\ ppc = "dedup"
    /\ \E i \in 1..Len(cleaned) :
          /\ 10 * cleaned[i].deal_base_rate # collection_result.raw_data[i].rate
          /\ Less(Ttb(cleaned[i].deal_base_rate), Tts(cleaned[i].deal_base_rate))
          /\ cleaned[i].tts = Tts(cleaned[i].deal_base_rate)

\* C25: every outcome returned by collect_all_data is successful if and only
\* if it has no error message, and a failed outcome carries no records.
C25_OutcomeInvariant ==
    cpc = "returned" =>
        \A i \in 1..Len(collection_results) :
            /\ collection_results[i].success <=> collection_results[i].error_message = ""
            /\ ~collection_results[i].success => collection_results[i].raw_data = <<>>

\* a returned list with a failed outcome and a successful one with records
C25_Witness ==
    /\ cpc = "returned"
    /\ \E i, j \in 1..Len(collection_results) :
          /\ ~collection_results[i].success
          /\ collection_results[i].error_message # ""
          /\ collection_results[j].success
          /\ collection_results[j].raw_data # <<>>

\* the elements of a sequence
Range(seq) == {seq[i] : i \in 1..Len(seq)}

\* what a step appended to a sequence
Appended(before, after) == SubSeq(after, Len(before) + 1, Len(after))

\* the record a stored row, a cache write or an event was made from
SameRecord(x, item) ==
    /\ x.currency_code = item.currency_code
    /\ x.deal_base_rate = item.deal_base_rate
    /\ x.source = item.source
    /\ x.recorded_at = item.recorded_at

\* C27: a record whose insert into the historical store failed is neither
\* written to the cache nor published: every cache write and every event of
\* the pipeline corresponds to a row present in the store.
C27_CacheOnlyFromStoredRows ==
    /\ \A i \in 1..Len(cache_writes) :
          \E j \in 1..Len(store) : SameRecord(store[j], cache_writes[i])
    /\ \A i \in 1..Len(events) :
          \E j \in 1..Len(store) : SameRecord(store[j], events[i])

\* the steps process_exchange_rate_data may take from one stage to the next
StageOrder ==
    {<<"idle", "collected">>, <<"collected", "dedup">>, <<"collected", "idle">>,
     <<"dedup", "save">>, <<"save", "cache">>, <<"cache", "notify">>, <<"notify", "idle">>}

\* C30: within one run cleaning precedes dedup, dedup precedes persistence,
\* and the cache writes and event publishes come after the persistence
\* stage; only records that cleaning produced and dedup kept are inserted,
\* cached or published.
C30_StageOrdering ==
    [][/\ ppc' # ppc => <<ppc, ppc'>> \in StageOrder
       /\ ppc = "dedup" => Range(processed_data') \subseteq Range(cleaned)
       /\ ppc \in {"save", "cache"} => processed_data' = processed_data
       /\ store' # store =>
             /\ ppc = "save"
             /\ store' = store \o Appended(store, store')
             /\ \A row \in Range(Appended(store, store')) :
                   \E item \in Range(processed_data) : row = HistoryRow(item, now)
       /\ (cache' # cache \/ cache_writes' # cache_writes) =>
             /\ ppc = "cache"
             /\ cache_writes' = cache_writes \o Appended(cache_writes, cache_writes')
             /\ Range(Appended(cache_writes, cache_writes')) \subseteq Range(processed_data)
       /\ events' # events =>
             /\ ppc = "notify"
             /\ events' = events \o Appended(events, events')
             /\ \A event \in Range(Appended(events, events')) :
                   \E item \in Range(processed_data) : event = EventData(item, now)]_vars

\* a run in which dedup dropped one of two cleaned records and the other was
\* inserted and cached and is about to be published
C30_Witness ==
    /\ ppc = "notify"
    /\ Len(cleaned) = 2
    /\ Len(processed_data) = 1
    /\ Len(store) = 2
    /\ SameRecord(store[2], processed_data[1])
    /\ cache_writes # <<>>
    /\ cache_writes[Len(cache_writes)] = processed_data[1]

----------------------------------------------------------------------------
(* Claims about the labels of the collector's outcomes *)

\* C29: every outcome returned by collect_all_data is labelled with the
\* source id of the adapter that produced it, i.e. of the coroutine at the
\* same position of the gather, also when it was built in the exception
\* branch, for every combination of active and inactive sources.
C29_OutcomeLabels ==
    cpc = "returned" =>
        /\ Len(collection_results) = Len(ActiveSourceIds)
        /\ \A i \in 1..Len(collection_results) :
              collection_results[i].source = ActiveSourceIds[i]

----------------------------------------------------------------------------
(* Claims about the batch driver *)

\* C26: a failure while processing one source's outcome does not prevent
\* the outcomes of the remaining sources from being handled in the same run:
\* when a run has ended, its loop has reached every outcome.
C26_FailureContainment ==
    dpc \in {"completed", "failed", "crashed"} =>
        /\ Len(handled) = Len(collection_results)
        /\ \A i \in 1..Len(handled) : handled[i].source = collection_results[i].source

\* the stored rows of a currency with the greatest recorded_at
MostRecent(code) == {store[i] : i \in LatestRows(code)}

\* C23: after completed runs the live cache entry of a currency holds the
\* rates of the most recent, by recorded_at, record stored for that currency
\* (the cache, a map keyed by rate:<code>, has one entry per currency).
C23_LatestWins ==
    dpc = "completed" =>
        \A code \in DOMAIN cache :
            Live(cache, code, now) =>
                \E row \in MostRecent(code) :
                    /\ cache[code].deal_base_rate = row.deal_base_rate
                    /\ cache[code].source = row.source
                    /\ cache[code].last_updated_at = row.recorded_at

----------------------------------------------------------------------------
(* Claims about the reader beside the writer *)

\* C28: once a get_latest_rates call and a pipeline run on the same currency
\* have both finished, whatever their interleaving, the live cache entry of
\* the currency equals the most recent row of the store: the reader's fill
\* after a miss does not replace the pipeline's newer entry with an older
\* stored rate.  Checked for runs whose own cache writes all succeeded.
C28_ReaderWriterInterleaving ==
    (rpc = "done" /\ ppc = "idle" /\ runs > 0 /\ failures.cache = {}) =>
        (Live(cache, "USD", now) =>
            \E row \in MostRecent("USD") :
                /\ cache["USD"].deal_base_rate = row.deal_base_rate
                /\ cache["USD"].source = row.source
                /\ cache["USD"].last_updated_at = row.recorded_at)

----------------------------------------------------------------------------
(* Claims about what the operations leave alone *)

\* the outcome held by process_exchange_rate_data has failed, carries no
\* records, or loses every record in cleaning
NothingToProcess ==
    \/ ~collection_result.success
    \/ collection_result.raw_data = <<>>
    \/ clean_and_transform_data(collection_result.raw_data, collection_result.source) = <<>>

C32_CollectorPersistsNothing ==
    [][(dpc # "loop" /\ dpc' = "loop") =>
          UNCHANGED <<store, cache, cache_writes, events>>]_vars

\* collect_all_data has returned in a second invocation, over a store, a
\* cache and a sink that the first invocation has written
C32_Witness ==
    /\ dpc = "loop"
    /\ position = 1
    /\ runs = 2
    /\ store # <<>> /\ cache # <<>> /\ events # <<>>
    /\ \E i \in 1..Len(collection_results) : collection_results[i].success
    /\ \E i \in 1..Len(collection_results) : ~collection_results[i].success

\* the step writes the cache entry of the currency
EntryWritten(code) ==
    /\ code \in DOMAIN cache'
    /\ code \notin DOMAIN cache \/ cache'[code] # cache[code]

\* C33: the reader never modifies the historical store, and for a currency
\* served from the cache it leaves the cache unchanged as well (a hit neither
\* rewrites the entry nor resets its TTL); the only write of get_latest_rates
\* is the cache fill for a requested currency that missed the cache and was
\* found in the store.
C33_ReaderWritesOnlyTheFill ==
    [][IsCall =>
          /\ store' = store
          /\ DOMAIN cache \subseteq DOMAIN cache'
          /\ \A code \in AllCurrencies :
                /\ (Live(cache, code, now) /\ code \notin request'.cache_read) =>
                      code \in DOMAIN cache' /\ cache'[code] = cache[code]
                /\ (code \in DOMAIN cache /\ code \notin RequestedCodes(request')) =>
                      code \in DOMAIN cache' /\ cache'[code] = cache[code]
                /\ EntryWritten(code) =>
                      /\ code \in RequestedCodes(request')
                      /\ ~Live(cache, code, now) \/ code \in request'.cache_read
                      /\ code \in queried'
                      /\ HasRow(code)
                      /\ cache'[code].deal_base_rate \in LatestRates(code)
                      /\ cache'[code].expires_at = now + cache_ttl]_vars

\* one call served USD from an entry the pipeline wrote, whose expiry it
\* left alone, and filled JPY from the store
C33_Witness ==
    /\ calls > 0
    /\ request.currency_codes = <<"USD", "JPY">>
    /\ reply.cache_hits = 1
    /\ queried = {"JPY"}
    /\ "USD" \in DOMAIN cache /\ "JPY" \in DOMAIN cache
    /\ reply.rates["USD"] = cache["USD"].deal_base_rate
    /\ cache["USD"].expires_at # reply.timestamp + cache_ttl
    /\ cache["JPY"].expires_at = reply.timestamp + cache_ttl
    /\ Len(store) = 2

\* how often a row occurs in a table
Count(row, rows) == Cardinality({i \in 1..Len(rows) : rows[i] = row})

\* the rows of the store are the first rows of the store after the step
StoreExtended == Len(store) <= Len(store') /\ SubSeq(store', 1, Len(store)) = store

\* C34: the write pipeline only appends to the historical store: no step of
\* process_exchange_rate_data updates or deletes an existing row; the only
\* deletion path is cleanup_old_data, which removes exactly the rows whose
\* recorded_at is older than the retention cutoff.
C34_AppendOnlyStore ==
    [][/\ cleanup_call' = cleanup_call => StoreExtended
       /\ (cleanup_call' # cleanup_call /\ ~cleanup_call'.raised) =>
             /\ cleanup_call'.cutoff_date = now - cleanup_call'.retention_days * 86400
             /\ \A row \in Range(store) \cup Range(store') :
                   Count(row, store') =
                       IF row.recorded_at < cleanup_call'.cutoff_date THEN 0
                       ELSE Count(row, store)
       /\ (cleanup_call' # cleanup_call /\ cleanup_call'.raised) => store' = store]_vars

\* a cleanup with a retention of one day has removed the row recorded two
\* days before and kept the row recorded exactly one day before
C34_Witness ==
    /\ cleanup_call.n > 0
    /\ ~cleanup_call.raised
    /\ cleanup_call.retention_days = 1
    /\ cleanup_call.cutoff_date = SecondsPerDay
    /\ now = 2 * SecondsPerDay
    /\ Len(store) = 1
    /\ store[1].recorded_at = cleanup_call.cutoff_date
    /\ saved_count = 1
    /\ runs = 2

\* C35: run_kubernetes_cronjob ends with exit code 0 if and only if at least
\* one source was collected successfully and its processing did not raise,
\* and with exit code 1 otherwise; in every case cleanup_services has run
\* when the process ends.
C35_CronjobExit ==
    (mode = "cronjob" /\ exit_code # Running) =>
        /\ exit_code \in {0, 1}
        /\ exit_code = 0 <=> \E i \in 1..Len(handled) : handled[i].outcome = "processed"
        /\ cleanup_ran

----------------------------------------------------------------------------
(* Claims about termination *)

\* C36: provided every adapter call eventually returns, fails or times out,
\* collect_all_data eventually returns; and provided every store, cache and
\* sink call eventually returns or fails, process_exchange_rate_data
\* eventually returns or raises for every outcome.
C36_Termination ==
    /\ (cpc = "gathering") ~> (cpc = "returned")
    /\ (ppc # "idle") ~> (ppc = "idle")

\* a run in which a provider hung until the session timeout has returned
\* three outcomes and every one of them has been through the processor
C36_Witness ==
    /\ cpc = "returned"
    /\ ppc = "idle"
    /\ Len(collection_results) = 3
    /\ position = 3
    /\ \E s \in Sources : task[s].resp = RequestTimeout
    /\ store # <<>>

----------------------------------------------------------------------------
(* Claims about messaging *)

OnKafka(id, topic_log) == \E i \in 1..Len(topic_log) : topic_log[i] = id

\* C37: send_message tries Kafka first and uses SQS only when no Kafka
\* producer exists or the Kafka send failed; it returns True as soon as one
\* sink accepted the message, so a message is delivered to at most one sink
\* per call, and when neither sink accepts it the call raises MessagingError:
\* it never returns False.
C37_SendMessage ==
    [][sends' = sends + 1 =>
          LET id == sends'
              on_kafka == OnKafka(id, kafka_topic')
              on_sqs == id \in sqs_queue'
          IN  /\ kafka_producer => "kafka" \in send_reply'.tried
              /\ ~kafka_producer => "kafka" \notin send_reply'.tried /\ ~on_kafka
              /\ "sqs" \in send_reply'.tried => ~kafka_producer \/ ~on_kafka
              /\ on_kafka => "sqs" \notin send_reply'.tried
              /\ on_sqs => "sqs" \in send_reply'.tried
              /\ ~(on_kafka /\ on_sqs)
              /\ send_reply'.outcome \in {"true", "MessagingError"}
              /\ send_reply'.outcome = "true" <=> on_kafka \/ on_sqs
              /\ \A other \in 1..sends :
                    /\ OnKafka(other, kafka_topic') <=> OnKafka(other, kafka_topic)
                    /\ other \in sqs_queue' <=> other \in sqs_queue]_vars

\* with both sinks set up, one message went to Kafka alone, one went to SQS
\* after its Kafka send had failed, and one was refused by both
C37_Witness ==
    /\ kafka_producer /\ sqs_client /\ sqs_queue_url
    /\ sends = 3
    /\ Len(kafka_topic) = 1
    /\ Cardinality(sqs_queue \cup deleted) = 1
    /\ \A id \in sqs_queue \cup deleted : ~OnKafka(id, kafka_topic)
    /\ send_reply = [outcome |-> "MessagingError", tried |-> {"kafka", "sqs"}]

\* the step is the end of the loop body for the first message of the batch
HandlerStep == mpc = "handling" /\ messages' = Tail(messages)

\* C38: SQS consumption is at-least-once: _consume_sqs deletes a received
\* message only after its handler completed without error; a handler failure
\* leaves that message in the queue and does not stop the consumption of the
\* later messages, and after stop() is called the consume loop exits.
C38_AtLeastOnce ==
    /\ [][/\ (sqs_queue \ sqs_queue' # {} \/ deleted' # deleted) =>
                /\ HandlerStep
                /\ sqs_queue \ sqs_queue' = {Head(messages)}
                /\ deleted' = deleted \cup {Head(messages)}
                /\ delivery'.message = Head(messages)
                /\ delivery'.handler = "ok"
          /\ (HandlerStep /\ delivery'.handler = "raise") =>
                /\ Head(messages) \in sqs_queue'
                /\ deleted' = deleted
                /\ mpc' = IF Tail(messages) # <<>> THEN "handling" ELSE "sleeping"
                /\ consumer_running' = consumer_running
          /\ (stopped /\ mpc = "loop") => mpc' \in {"loop", "exited"}]_vars
    /\ stopped ~> (mpc = "exited")

\* one message was deleted after its handler had completed; the handler then
\* failed on another message, which is still in the queue; stop was called
\* and the loop has exited
C38_Witness ==
    /\ mpc = "exited"
    /\ stopped
    /\ deleted # {}
    /\ delivery.handler = "raise"
    /\ delivery.message \in sqs_queue
    /\ delivery.message \notin deleted

----------------------------------------------------------------------------

(* Claims about the rate limiter *)

\* a window of 60 seconds, in tenths of a second
WindowTenths == window * TenthsPerSecond

\* the requests of a client let through at a wall-clock time in from..to-1
AdmittedWithin(ip, from, to) ==
    Cardinality({i \in 1..Len(requests[ip]) :
                    /\ ~requests[ip][i].raised
                    /\ from <= requests[ip][i].at
                    /\ requests[ip][i].at < to})

\* the requests of a client, let through or rejected, less than 60 seconds
\* before the wall-clock time at
RequestedBefore(ip, at) ==
    Cardinality({i \in 1..Len(requests[ip]) : at - requests[ip][i].at < WindowTenths})

\* C39: for every client IP and every 60-second window, check_rate_limit
\* lets at most 100 requests through and raises RateLimitExceededError for
\* each further one, a rejected request counting toward the window like one
\* let through; a request changes nothing for any other client IP.  The
\* windows are read at their ends: at every moment, the 60 seconds ending
\* now hold at most 100 requests let through
C39_RateLimit ==
    /\ [](\A ip \in ClientIps :
             AdmittedWithin(ip, wall_clock - WindowTenths + 1, wall_clock + 1) <= limit)
    /\ [][\A ip \in ClientIps :
             checked'.n[ip] = checked.n[ip] + 1 =>
                 /\ checked'.raised <=> (RequestedBefore(ip, wall_clock) >= limit)
                 /\ \A other \in ClientIps \ {ip} :
                        /\ requests'[other] = requests[other]
                        /\ other \in DOMAIN rate_limit_store =>
                               rate_limit_store'[other] = rate_limit_store[other]]_vars

\* the same windows read on the limiter's own clock, the whole seconds of
\* int(time.time()): at most 100 requests are let through in any 60
\* consecutive clock seconds
C39_WholeSecondWindows ==
    \A ip \in ClientIps :
        Cardinality({j \in 1..Len(requests[ip]) :
                        /\ ~requests[ip][j].raised
                        /\ wall_clock \div TenthsPerSecond - requests[ip][j].at \div TenthsPerSecond
                               < window}) <= limit

\* a client's 101st request in one clock second has been rejected
C39_Rejected ==
    /\ checked.raised
    /\ checked.n[checked.client_ip] = limit + 1

\* 100 requests of a client were let through and, 59.1 seconds later, a
\* further one was let through as well
C39_Straddle ==
    \E ip \in ClientIps :
        /\ Len(requests[ip]) = limit + 1
        /\ \A i \in 1..(limit + 1) : ~requests[ip][i].raised
        /\ requests[ip][limit + 1].at - requests[ip][1].at < WindowTenths

====
